---- MODULE Spec2Model ----
(***************************************************************************)
(* Model of the Joplin MCP tool layer: the mutation entry points           *)
(* (create/update/delete of notes and folders), their validators, the      *)
(* ancestry walk of UpdateFolder and the backend they talk to.             *)
(*                                                                         *)
(* A JavaScript string is a sequence of one-character strings, so that     *)
(* length, trim and the identifier pattern are computed, not assumed.      *)
(* A handler is cut at its awaits: one action is the backend answering the *)
(* call in flight plus the handler code up to the next call it issues.     *)
(***************************************************************************)
EXTENDS Integers, Sequences, FiniteSets, TLC

\* ------------------------------------------------------------------ bounds
MaxFolders == 3          \* size of the folder identifier pool
MaxNotes == 2            \* size of the note identifier pool
MaxList == 3             \* longest folder collection the listing is run on
MaxSiblings == 3         \* largest sibling group whose order is examined
MaxTwice == 2            \* longest folder collection the listing is run on twice
PageSize == 2            \* items the backend delivers in one page

\* ------------------------------------------------------- program constants
IdLen == 32              \* validators.js: id.length !== 32
MaxTitleLen == 255       \* validators.js: title.length > 255
Now == 1000              \* update-note.js: Date.now()

\* ------------------------------------------------------ JavaScript values
JsVal(t, s, n, b) == [t |-> t, s |-> s, n |-> n, b |-> b]
Undef == JsVal("undefined", <<>>, 0, FALSE)
Null == JsVal("null", <<>>, 0, FALSE)
Str(s) == JsVal("string", s, 0, FALSE)
Num(n) == JsVal("number", <<>>, n, FALSE)
Bool(b) == JsVal("boolean", <<>>, 0, b)

\* !v is false
Truthy(v) ==
  \/ v.t = "string" /\ v.s # <<>>
  \/ v.t = "number" /\ v.n # 0
  \/ v.t = "boolean" /\ v.b

\* v !== undefined && v !== null
Given(v) == v.t # "undefined" /\ v.t # "null"

\* v !== undefined && v !== null && v !== ''
GivenNonEmpty(v) == Given(v) /\ v # Str(<<>>)

HexChars == {"0", "1", "2", "3", "4", "5", "6", "7", "8", "9",
             "a", "b", "c", "d", "e", "f", "A", "B", "C", "D", "E", "F"}

\* id.match(/^[a-f0-9]{32}$/i)
MatchesIdPattern(s) == Len(s) = IdLen /\ \A i \in 1..Len(s) : s[i] \in HexChars

WhiteSpace == {" "}

RECURSIVE TrimStart(_)
TrimStart(s) ==
  IF s # <<>> /\ Head(s) \in WhiteSpace THEN TrimStart(Tail(s)) ELSE s

RECURSIVE TrimEnd(_)
TrimEnd(s) ==
  IF s # <<>> /\ s[Len(s)] \in WhiteSpace
  THEN TrimEnd(SubSeq(s, 1, Len(s) - 1)) ELSE s

\* title.trim()
Trim(s) == TrimEnd(TrimStart(s))

\* -------------------------------------------------------------- validators
\* A thrown Error is a record: status is error.response.status (0 when the
\* error carries no response), msg names the message, id the identifier the
\* message quotes.
Err(status, msg, id) == [status |-> status, msg |-> msg, id |-> id]
NoErr == Err(0, "none", <<>>)

validateNoteId(id) ==
  IF ~Truthy(id) \/ id.t # "string" \/ Len(id.s) # IdLen \/ ~MatchesIdPattern(id.s)
  THEN Err(0, "Invalid note ID format", <<>>) ELSE NoErr

validateFolderId(id) ==
  IF ~Truthy(id) \/ id.t # "string" \/ Len(id.s) # IdLen \/ ~MatchesIdPattern(id.s)
  THEN Err(0, "Invalid folder ID format", <<>>) ELSE NoErr

validateTitle(title) ==
  IF ~Truthy(title) \/ title.t # "string" \/ Len(Trim(title.s)) = 0
  THEN Err(0, "Title is required and cannot be empty", <<>>)
  ELSE IF Len(title.s) > MaxTitleLen
  THEN Err(0, "Title cannot exceed 255 characters", <<>>)
  ELSE NoErr

validateOptionalId(id) ==
  IF GivenNonEmpty(id)
     /\ (id.t # "string" \/ Len(id.s) # IdLen \/ ~MatchesIdPattern(id.s))
  THEN Err(0, "Invalid ID format", <<>>) ELSE NoErr

validateOptionalTitle(title) ==
  IF ~GivenNonEmpty(title) THEN NoErr
  ELSE IF title.t # "string" THEN Err(0, "Title must be a string", <<>>)
  ELSE IF Len(title.s) > MaxTitleLen
  THEN Err(0, "Title cannot exceed 255 characters", <<>>)
  ELSE NoErr

validateOptionalBody(body) ==
  IF Given(body) /\ body.t # "string"
  THEN Err(0, "Note body must be a string", <<>>) ELSE NoErr

validateOptionalBoolean(value) ==
  IF Given(value) /\ value.t # "boolean"
  THEN Err(0, "must be a boolean", <<>>) ELSE NoErr

validateOptionalTimestamp(timestamp) ==
  IF Given(timestamp) /\ (timestamp.t # "number" \/ timestamp.n < 0)
  THEN Err(0, "must be a valid Unix timestamp", <<>>) ELSE NoErr

\* mutant: the check counts the keys of the object, not the values provided
validateAtLeastOneUpdateField_CountsKeys(fields) ==
  IF Len(fields) = 0
  THEN Err(0, "At least one property must be provided for update", <<>>)
  ELSE NoErr

\* fields is the sequence of the values of the object's keys
validateAtLeastOneUpdateField(fields) ==
  IF \A i \in 1..Len(fields) : ~GivenNonEmpty(fields[i])
  THEN Err(0, "At least one property must be provided for update", <<>>)
  ELSE NoErr

\* The validators run in order; the first one that throws ends the try block.
RECURSIVE FirstErr(_)
FirstErr(errs) ==
  IF errs = <<>> THEN NoErr
  ELSE IF Head(errs) # NoErr THEN Head(errs)
  ELSE FirstErr(Tail(errs))

\* ------------------------------------------------------------ identifiers
IdChars == <<"a", "b", "c", "d", "e", "f">>
NoteIdChars == <<"1", "2", "3", "4", "5", "6">>

\* a 32-character hexadecimal token
MkId(c) == [i \in 1..IdLen |-> c]

FolderIds == {MkId(IdChars[i]) : i \in 1..MaxFolders}
NoteIds == {MkId(NoteIdChars[i]) : i \in 1..MaxNotes}

DefaultTitle == <<"T">>

\* ------------------------------------------------------------------ state
VARIABLES
  folders,     \* backend: folder id -> [title, parent_id]; parent_id <<>> is root
  notes,       \* backend: note id -> record
  usedIds,     \* identifiers the backend has ever stored (as id or as reference)
  inv,         \* per invocation: the frame of the running (or last) handler call
  listing,     \* backend: the folder collection as the paginated endpoint
               \* delivers it, a flat sequence of records in backend order
  collation    \* the order localeCompare follows in the running environment

vars == <<folders, notes, usedIds, inv, listing, collation>>

Procs == {1, 2}

NoOp == [name |-> "none", id |-> Undef, title |-> Undef, body |-> Undef,
         parentId |-> Undef, isTodo |-> Undef, todoCompleted |-> Undef,
         todoDue |-> Undef]

Res(text, id) == [text |-> text, id |-> id]
NoRes == Res("none", <<>>)

EmptyBody == <<>>
NoResp == [id |-> <<>>, parent_id |-> <<>>]

\* pc: the await the handler is suspended at; calls: the backend calls issued so
\* far by this invocation, in order; answers[i]: how calls[i] was answered;
\* pre: the folder store when the call began.
\* notebooks: the folder collection the listing fetched; lines: the notebook
\* lines of its result, in order.
IdleFrame == [pc |-> "idle", op |-> NoOp, cur |-> <<>>, visited |-> {},
              calls |-> <<>>, answers |-> <<>>, result |-> NoRes,
              resp |-> NoResp, pre |-> <<>>, notebooks |-> <<>>,
              lines |-> <<>>, queue |-> <<>>]

\* ---------------------------------------------------------------- backend
FolderRec(title, parent) == [title |-> title, parent_id |-> parent]

\* one backend call as the API client sends it
Request(m, path, id, body) == [m |-> m, path |-> path, id |-> id, body |-> body]

IsWrite(c) == c.m \in {"POST", "PUT", "DELETE"}

Has(body, k) == k \in DOMAIN body

\* PUT /folders/:id merges the fields of the body into the stored record
ApplyFolderPut(f, id, body) ==
  [f EXCEPT ![id] = FolderRec(
      IF Has(body, "title") THEN body["title"].s ELSE @.title,
      IF Has(body, "parent_id") THEN body["parent_id"].s ELSE @.parent_id)]

\* POST /folders stores a new record under an identifier the backend mints (a
\* random token: never one the store holds, has held, or is being sent)
ApplyFolderPost(f, newId, body) ==
  [i \in DOMAIN f \cup {newId} |->
     IF i = newId
     THEN FolderRec(IF Has(body, "title") THEN body["title"].s ELSE <<>>,
                    IF Has(body, "parent_id") THEN body["parent_id"].s ELSE <<>>)
     ELSE f[i]]

RECURSIVE IsUnder(_, _, _, _)
\* id lies below root in f (k bounds the walk)
IsUnder(f, id, root, k) ==
  IF id = root THEN TRUE
  ELSE IF k = 0 \/ id \notin DOMAIN f THEN FALSE
  ELSE IsUnder(f, f[id].parent_id, root, k - 1)

\* DELETE /folders/:id removes the record, with or without its sub-folders
ApplyFolderDelete(f, id, cascade) ==
  LET gone == IF cascade
              THEN {i \in DOMAIN f : IsUnder(f, i, id, Cardinality(DOMAIN f))}
              ELSE {id}
  IN [i \in DOMAIN f \ gone |-> f[i]]

RefsOf(body) == IF Has(body, "parent_id") THEN {body["parent_id"].s} ELSE {}

\* one record of the folder collection, with the projected fields
ItemRec(id, title, parent) == [id |-> id, title |-> title, parent_id |-> parent]

\* GET /folders: the records of the store, in the backend's order
ListingOf(f) ==
  LET ids == SelectSeq([i \in 1..MaxFolders |-> MkId(IdChars[i])],
                       LAMBDA x : x \in DOMAIN f)
  IN [i \in 1..Len(ids) |-> ItemRec(ids[i], f[ids[i]].title, f[ids[i]].parent_id)]

\* ----------------------------------------------------------- frame helpers
Done(fr, res) == [fr EXCEPT !.pc = "done", !.result = res]
Call(fr, at, req) == [fr EXCEPT !.pc = at, !.calls = Append(@, req)]
LastCall(fr) == fr.calls[Len(fr.calls)]
Answered(fr, answer) == [fr EXCEPT !.answers = Append(@, answer)]

Begin(op) == [IdleFrame EXCEPT !.op = op, !.pre = folders]

\* How the backend answers a call on one folder: a transport failure whatever
\* the store holds, not-found for an identifier it does not hold, else the
\* outcome ("ok", or "malformed": applied, but the payload lacks the id).
FolderAnswer(outcome, id) ==
  IF outcome \in {"e400", "e500"} THEN outcome
  ELSE IF id \notin DOMAIN folders THEN "404"
  ELSE outcome

\* the error the API client throws for an answer that is not a success
Thrown(answer) ==
  IF answer = "404" THEN Err(404, "Not Found", <<>>)
  ELSE IF answer = "e400" THEN Err(400, "Bad Request", <<>>)
  ELSE Err(500, "Request failed", <<>>)

\* --------------------------------------------------------- UpdateFolder
UpdateFolderCatch(e, folderId) ==
  IF e.status = 404 THEN Res("Error: Folder not found", folderId.s)
  ELSE IF e.status = 400 THEN Res("Error: Invalid request data", <<>>)
  ELSE Res(e.msg, e.id)

\* mutant: a field that was not supplied is sent with its default value
UpdateFolderBody_SendsDefaults(title, parentId) ==
  ("title" :> (IF GivenNonEmpty(title) THEN Str(Trim(title.s)) ELSE Str(<<>>)))
  @@ ("parent_id" :> (IF GivenNonEmpty(parentId) THEN parentId ELSE Str(<<>>)))

\* mutant: an empty-string parent is sent like any other supplied parent
UpdateFolderBody_SendsEmptyParent(title, parentId) ==
  (IF GivenNonEmpty(title) THEN "title" :> Str(Trim(title.s)) ELSE EmptyBody)
  @@ (IF Given(parentId) THEN "parent_id" :> parentId ELSE EmptyBody)

UpdateFolderBody(title, parentId) ==
  (IF GivenNonEmpty(title) THEN "title" :> Str(Trim(title.s)) ELSE EmptyBody)
  @@ (IF GivenNonEmpty(parentId) THEN "parent_id" :> parentId ELSE EmptyBody)

\* mutant: the self-move test is missing
UpdateFolderAfterWalk_NoSelfTest(fr) ==
  Call(fr, "uf_put",
       Request("PUT", "folders", fr.op.id.s,
               UpdateFolderBody(fr.op.title, fr.op.parentId)))

\* call(): from the self-move test to the PUT
UpdateFolderAfterWalk(fr) ==
  IF fr.op.parentId = fr.op.id
  THEN Done(fr, UpdateFolderCatch(
              Err(0, "A folder cannot be moved to itself", <<>>), fr.op.id))
  ELSE Call(fr, "uf_put",
            Request("PUT", "folders", fr.op.id.s,
                    UpdateFolderBody(fr.op.title, fr.op.parentId)))

\* mutant: a revisited identifier ends the walk as if the root had been reached
checkCircularReference_StopsAtRevisit(fr) ==
  IF fr.cur = <<>> \/ fr.cur \in fr.visited THEN UpdateFolderAfterWalk(fr)
  ELSE IF fr.cur = fr.op.id.s
  THEN Done(fr, UpdateFolderCatch(
              Err(0, "Cannot move folder to be its own descendant", <<>>),
              fr.op.id))
  ELSE Call([fr EXCEPT !.visited = @ \cup {fr.cur}], "uf_walk",
            Request("GET", "folders", fr.cur, EmptyBody))

\* mutant: the walk does not compare the hop with the folder being moved
checkCircularReference_NoDescendantTest(fr) ==
  IF fr.cur = <<>> THEN UpdateFolderAfterWalk(fr)
  ELSE IF fr.cur \in fr.visited
  THEN Done(fr, UpdateFolderCatch(
              Err(0, "Circular reference detected", <<>>), fr.op.id))
  ELSE Call([fr EXCEPT !.visited = @ \cup {fr.cur}], "uf_walk",
            Request("GET", "folders", fr.cur, EmptyBody))

\* mutant: the walk keeps no visited set
checkCircularReference_NoVisitedTest(fr) ==
  IF fr.cur = <<>> THEN UpdateFolderAfterWalk(fr)
  ELSE IF fr.cur = fr.op.id.s
  THEN Done(fr, UpdateFolderCatch(
              Err(0, "Cannot move folder to be its own descendant", <<>>),
              fr.op.id))
  ELSE Call([fr EXCEPT !.visited = @ \cup {fr.cur}], "uf_walk",
            Request("GET", "folders", fr.cur, EmptyBody))

\* mutant: the hop is added to the visited set before the set is tested
checkCircularReference_TestAfterAdd(fr) ==
  IF fr.cur = <<>> THEN UpdateFolderAfterWalk(fr)
  ELSE IF fr.cur \in fr.visited \cup {fr.cur}
  THEN Done(fr, UpdateFolderCatch(
              Err(0, "Circular reference detected", <<>>), fr.op.id))
  ELSE Call([fr EXCEPT !.visited = @ \cup {fr.cur}], "uf_walk",
            Request("GET", "folders", fr.cur, EmptyBody))

\* checkCircularReference: the while loop from its head to the next fetch
checkCircularReference(fr) ==
  IF fr.cur = <<>> THEN UpdateFolderAfterWalk(fr)
  ELSE IF fr.cur \in fr.visited
  THEN Done(fr, UpdateFolderCatch(
              Err(0, "Circular reference detected", <<>>), fr.op.id))
  ELSE IF fr.cur = fr.op.id.s
  THEN Done(fr, UpdateFolderCatch(
              Err(0, "Cannot move folder to be its own descendant", <<>>),
              fr.op.id))
  ELSE Call([fr EXCEPT !.visited = @ \cup {fr.cur}], "uf_walk",
            Request("GET", "folders", fr.cur, EmptyBody))

UpdateFolderValidate(folderId, title, parentId) ==
  FirstErr(<<validateFolderId(folderId),
             validateOptionalTitle(title),
             validateOptionalId(parentId),
             validateAtLeastOneUpdateField(<<title, parentId>>)>>)

\* mutant: the PUT is sent before the walk instead of after it
UpdateFolderEnter_WriteFirst(fr) ==
  LET e == UpdateFolderValidate(fr.op.id, fr.op.title, fr.op.parentId)
      put == Request("PUT", "folders", fr.op.id.s,
                     UpdateFolderBody(fr.op.title, fr.op.parentId))
  IN
  IF e # NoErr THEN Done(fr, UpdateFolderCatch(e, fr.op.id))
  ELSE IF Truthy(fr.op.parentId) /\ fr.op.parentId # fr.op.id
  THEN checkCircularReference(
         [fr EXCEPT !.cur = fr.op.parentId.s, !.calls = Append(@, put),
                    !.answers = Append(@, "ok")])
  ELSE UpdateFolderAfterWalk(fr)

\* call(): from entry to the first await
UpdateFolderEnter(fr) ==
  LET e == UpdateFolderValidate(fr.op.id, fr.op.title, fr.op.parentId) IN
  IF e # NoErr THEN Done(fr, UpdateFolderCatch(e, fr.op.id))
  ELSE IF Truthy(fr.op.parentId) /\ fr.op.parentId # fr.op.id
  THEN checkCircularReference([fr EXCEPT !.cur = fr.op.parentId.s])
  ELSE UpdateFolderAfterWalk(fr)

UpdateFolderCall(p, folderId, title, parentId) ==
  /\ inv[p].pc = "idle"
  /\ inv' = [inv EXCEPT ![p] =
       UpdateFolderEnter(Begin([NoOp EXCEPT !.name = "updateFolder",
                                            !.id = folderId, !.title = title,
                                            !.parentId = parentId]))]
  /\ UNCHANGED <<folders, notes, usedIds>>
  /\ UNCHANGED <<listing, collation>>

\* mutant: only the proposed parent is fetched, its ancestors are not walked
UpdateFolderHop_OneHop(fr, answer, parent) ==
  IF answer = "404"
  THEN Done(fr, UpdateFolderCatch(
              Err(0, "Parent folder not found", fr.cur), fr.op.id))
  ELSE IF answer # "ok" THEN Done(fr, UpdateFolderCatch(Thrown(answer), fr.op.id))
  ELSE UpdateFolderAfterWalk(fr)

\* mutant: the message names the proposed parent, not the hop that is missing
UpdateFolderHop_NamesProposedParent(fr, answer, parent) ==
  IF answer = "404"
  THEN Done(fr, UpdateFolderCatch(
              Err(0, "Parent folder not found", fr.op.parentId.s), fr.op.id))
  ELSE IF answer # "ok" THEN Done(fr, UpdateFolderCatch(Thrown(answer), fr.op.id))
  ELSE checkCircularReference([fr EXCEPT !.cur = parent])

\* checkCircularReference: the answer to the fetch of one hop
UpdateFolderHop(fr, answer, parent) ==
  IF answer = "404"
  THEN Done(fr, UpdateFolderCatch(
              Err(0, "Parent folder not found", fr.cur), fr.op.id))
  ELSE IF answer # "ok" THEN Done(fr, UpdateFolderCatch(Thrown(answer), fr.op.id))
  ELSE checkCircularReference([fr EXCEPT !.cur = parent])

UpdateFolderWalkStep(p, outcome) ==
  /\ inv[p].pc = "uf_walk"
  /\ LET answer == FolderAnswer(outcome, inv[p].cur)
         parent == IF answer = "ok" THEN folders[inv[p].cur].parent_id ELSE <<>>
     IN inv' = [inv EXCEPT ![p] =
                  UpdateFolderHop(Answered(inv[p], answer), answer, parent)]
  /\ UNCHANGED <<folders, notes, usedIds>>
  /\ UNCHANGED <<listing, collation>>

\* call(): from the PUT's answer to the lookup of the parent's title
UpdateFolderWritten(fr, answer, updated) ==
  IF answer \in {"404", "e400", "e500"}
  THEN Done(fr, UpdateFolderCatch(Thrown(answer), fr.op.id))
  ELSE IF answer = "malformed"
  THEN Done(fr, Res("Error: Unexpected response format", <<>>))
  ELSE IF updated.parent_id # <<>>
  THEN Call([fr EXCEPT !.resp = updated], "uf_parent",
            Request("GET", "folders", updated.parent_id, EmptyBody))
  ELSE Done([fr EXCEPT !.resp = updated],
            Res("Successfully updated folder", updated.id))

UpdateFolderPut(p, outcome) ==
  /\ inv[p].pc = "uf_put"
  /\ LET id == inv[p].op.id.s
         body == LastCall(inv[p]).body
         answer == FolderAnswer(outcome, id)
         applied == answer \in {"ok", "malformed"}
     IN /\ folders' = IF applied THEN ApplyFolderPut(folders, id, body) ELSE folders
        /\ usedIds' = IF applied THEN usedIds \cup RefsOf(body) ELSE usedIds
        /\ inv' = [inv EXCEPT ![p] =
             UpdateFolderWritten(Answered(inv[p], answer), answer,
               IF applied THEN [id |-> id, parent_id |-> folders'[id].parent_id]
               ELSE NoResp)]
  /\ UNCHANGED notes
  /\ listing' = ListingOf(folders')
  /\ UNCHANGED collation

\* call(): the lookup of the parent's title answers (any answer is tolerated)
UpdateFolderParentInfo(p, outcome) ==
  /\ inv[p].pc = "uf_parent"
  /\ inv' = [inv EXCEPT ![p] =
       Done(Answered(inv[p], FolderAnswer(outcome, LastCall(inv[p]).id)),
            Res("Successfully updated folder", inv[p].op.id.s))]
  /\ UNCHANGED <<folders, notes, usedIds>>
  /\ UNCHANGED <<listing, collation>>

\* --------------------------------------------------------- CreateFolder
CreateFolderCatch(e, parentId) ==
  IF e.status = 404 THEN Res("Error: Parent folder not found", parentId.s)
  ELSE IF e.status = 400 THEN Res("Error: Invalid request data", <<>>)
  ELSE Res(e.msg, e.id)

CreateFolderBody(title, parentId) ==
  ("title" :> Str(Trim(title.s)))
  @@ (IF Truthy(parentId) THEN "parent_id" :> parentId ELSE EmptyBody)

CreateFolderValidate(title, parentId) ==
  FirstErr(<<validateTitle(title), validateOptionalId(parentId)>>)

\* call(): from entry to the POST
CreateFolderEnter(fr) ==
  LET e == CreateFolderValidate(fr.op.title, fr.op.parentId) IN
  IF e # NoErr THEN Done(fr, CreateFolderCatch(e, fr.op.parentId))
  ELSE Call(fr, "cf_post",
            Request("POST", "folders", <<>>,
                    CreateFolderBody(fr.op.title, fr.op.parentId)))

CreateFolderCall(p, title, parentId) ==
  /\ inv[p].pc = "idle"
  /\ inv' = [inv EXCEPT ![p] =
       CreateFolderEnter(Begin([NoOp EXCEPT !.name = "createFolder",
                                            !.title = title,
                                            !.parentId = parentId]))]
  /\ UNCHANGED <<folders, notes, usedIds>>
  /\ UNCHANGED <<listing, collation>>

\* call(): from the POST's answer to the lookup of the parent's title
CreateFolderWritten(fr, answer, created) ==
  IF answer \in {"e400", "e500"}
  THEN Done(fr, CreateFolderCatch(Thrown(answer), fr.op.parentId))
  ELSE IF answer = "malformed"
  THEN Done(fr, Res("Error: Unexpected response format", <<>>))
  ELSE IF created.parent_id # <<>>
  THEN Call([fr EXCEPT !.resp = created], "cf_parent",
            Request("GET", "folders", created.parent_id, EmptyBody))
  ELSE Done([fr EXCEPT !.resp = created],
            Res("Successfully created folder", created.id))

CreateFolderPost(p, outcome) ==
  /\ inv[p].pc = "cf_post"
  /\ LET body == LastCall(inv[p]).body IN
     IF outcome \in {"e400", "e500"}
     THEN /\ inv' = [inv EXCEPT ![p] =
                CreateFolderWritten(Answered(inv[p], outcome), outcome, NoResp)]
          /\ UNCHANGED <<folders, usedIds>>
     ELSE \E newId \in FolderIds \ (usedIds \cup RefsOf(body)) :
          /\ folders' = ApplyFolderPost(folders, newId, body)
          /\ usedIds' = usedIds \cup {newId} \cup RefsOf(body)
          /\ inv' = [inv EXCEPT ![p] =
               CreateFolderWritten(Answered(inv[p], outcome), outcome,
                 [id |-> newId, parent_id |-> folders'[newId].parent_id])]
  /\ UNCHANGED notes
  /\ listing' = ListingOf(folders')
  /\ UNCHANGED collation

\* call(): the lookup of the parent's title answers (any answer is tolerated)
CreateFolderParentInfo(p, outcome) ==
  /\ inv[p].pc = "cf_parent"
  /\ inv' = [inv EXCEPT ![p] =
       Done(Answered(inv[p], FolderAnswer(outcome, LastCall(inv[p]).id)),
            Res("Successfully created folder", inv[p].resp.id))]
  /\ UNCHANGED <<folders, notes, usedIds>>
  /\ UNCHANGED <<listing, collation>>

\* --------------------------------------------------------- DeleteFolder
DeleteFolderCatch(e, folderId) ==
  IF e.status = 404 THEN Res("Error: Folder not found", folderId.s)
  ELSE IF e.status = 403 THEN Res("Error: Permission denied", <<>>)
  ELSE IF e.status = 400 THEN Res("Error: Invalid request", <<>>)
  ELSE Res(e.msg, e.id)

DeleteFolderIssueDelete(fr) ==
  Call(fr, "df_delete", Request("DELETE", "folders", fr.op.id.s, EmptyBody))

DeleteFolderIssueList(fr) ==
  Call(fr, "df_all", Request("GET", "folders*", <<>>, EmptyBody))

\* call(): from entry to the fetch of the folder's details
DeleteFolderEnter(fr) ==
  LET e == validateFolderId(fr.op.id) IN
  IF e # NoErr THEN Done(fr, DeleteFolderCatch(e, fr.op.id))
  ELSE Call(fr, "df_get", Request("GET", "folders", fr.op.id.s, EmptyBody))

DeleteFolderCall(p, folderId) ==
  /\ inv[p].pc = "idle"
  /\ inv' = [inv EXCEPT ![p] =
       DeleteFolderEnter(Begin([NoOp EXCEPT !.name = "deleteFolder",
                                            !.id = folderId]))]
  /\ UNCHANGED <<folders, notes, usedIds>>
  /\ UNCHANGED <<listing, collation>>

\* call(): the fetch of the folder's details answers
DeleteFolderDetails(p, outcome) ==
  /\ inv[p].pc = "df_get"
  /\ LET id == inv[p].op.id.s
         answer == FolderAnswer(outcome, id)
         fr == Answered(inv[p], answer)
     IN inv' = [inv EXCEPT ![p] =
          IF answer # "ok" THEN DeleteFolderIssueDelete(fr)
          ELSE IF folders[id].parent_id # <<>>
          THEN Call(fr, "df_parent",
                    Request("GET", "folders", folders[id].parent_id, EmptyBody))
          ELSE DeleteFolderIssueList(fr)]
  /\ UNCHANGED <<folders, notes, usedIds>>
  /\ UNCHANGED <<listing, collation>>

\* call(): the lookup of the parent's title answers
DeleteFolderParentInfo(p, outcome) ==
  /\ inv[p].pc = "df_parent"
  /\ inv' = [inv EXCEPT ![p] =
       DeleteFolderIssueList(
         Answered(inv[p], FolderAnswer(outcome, LastCall(inv[p]).id)))]
  /\ UNCHANGED <<folders, notes, usedIds>>
  /\ UNCHANGED <<listing, collation>>

\* call(): from the answer of getAllItems on; the sub-folders found among the
\* fetched records are kept for the deletion details
DeleteFolderListed(fr, answer, items) ==
  IF answer # "ok" THEN DeleteFolderIssueDelete(fr)
  ELSE Call([fr EXCEPT !.lines =
               SelectSeq(items, LAMBDA f : f.parent_id = fr.op.id.s)],
            "df_notes",
            Request("GET", "folders/notes", fr.op.id.s, EmptyBody))

\* mutant: a failure of the folder collection read ends the operation
DeleteFolderList_Aborts(p, outcome) ==
  /\ inv[p].pc = "df_all"
  /\ LET fr == Answered(inv[p], outcome) IN
     inv' = [inv EXCEPT ![p] =
       IF outcome # "ok"
       THEN Done(fr, DeleteFolderCatch(Thrown(outcome), fr.op.id))
       ELSE Call(fr, "df_notes",
                 Request("GET", "folders/notes", fr.op.id.s, EmptyBody))]
  /\ UNCHANGED <<folders, notes, usedIds>>
  /\ UNCHANGED <<listing, collation>>

\* call(): the folder collection answers
DeleteFolderList(p, outcome) ==
  /\ inv[p].pc = "df_all"
  /\ inv' = [inv EXCEPT ![p] =
       DeleteFolderListed(Answered(inv[p], outcome), outcome, listing)]
  /\ UNCHANGED <<folders, notes, usedIds>>
  /\ UNCHANGED <<listing, collation>>

\* call(): the notes of the folder answer
DeleteFolderNotes(p, outcome) ==
  /\ inv[p].pc = "df_notes"
  /\ inv' = [inv EXCEPT ![p] =
       DeleteFolderIssueDelete(
         Answered(inv[p], FolderAnswer(outcome, inv[p].op.id.s)))]
  /\ UNCHANGED <<folders, notes, usedIds>>
  /\ UNCHANGED <<listing, collation>>

\* call(): the DELETE answers
DeleteFolderDelete(p, outcome, cascade) ==
  /\ inv[p].pc = "df_delete"
  /\ LET id == inv[p].op.id.s
         answer == FolderAnswer(outcome, id)
         fr == Answered(inv[p], answer)
     IN
     IF answer # "ok"
     THEN /\ inv' = [inv EXCEPT ![p] =
                Done(fr, DeleteFolderCatch(Thrown(answer), fr.op.id))]
          /\ UNCHANGED <<folders, notes>>
     ELSE /\ folders' = ApplyFolderDelete(folders, id, cascade)
          /\ notes' = [n \in {m \in DOMAIN notes :
                                notes[m].parent_id \in DOMAIN folders'
                                \/ notes[m].parent_id = <<>>} |-> notes[n]]
          /\ inv' = [inv EXCEPT ![p] =
                Done(fr, Res("Successfully moved folder to trash", id))]
  /\ UNCHANGED usedIds
  /\ listing' = ListingOf(folders')
  /\ UNCHANGED collation

\* ------------------------------------------------------ backend: notes
NoteRec(title, body, parent, isTodo, completed, due) ==
  [title |-> title, body |-> body, parent_id |-> parent, is_todo |-> isTodo,
   todo_completed |-> completed, todo_due |-> due]

\* the record left by merging the fields of the body into old
MergeNote(old, body) ==
  NoteRec(IF Has(body, "title") THEN body["title"].s ELSE old.title,
          IF Has(body, "body") THEN body["body"].s ELSE old.body,
          IF Has(body, "parent_id") THEN body["parent_id"].s ELSE old.parent_id,
          IF Has(body, "is_todo") THEN body["is_todo"].n ELSE old.is_todo,
          IF Has(body, "todo_completed") THEN body["todo_completed"].n
          ELSE old.todo_completed,
          IF Has(body, "todo_due") THEN body["todo_due"].n ELSE old.todo_due)

BlankNote == NoteRec(<<>>, <<>>, <<>>, 0, 0, 0)

\* PUT /notes/:id
ApplyNotePut(n, id, body) == [n EXCEPT ![id] = MergeNote(@, body)]

\* POST /notes
ApplyNotePost(n, newId, body) ==
  [i \in DOMAIN n \cup {newId} |->
     IF i = newId THEN MergeNote(BlankNote, body) ELSE n[i]]

\* DELETE /notes/:id
ApplyNoteDelete(n, id) == [i \in DOMAIN n \ {id} |-> n[i]]

NoteAnswer(outcome, id) ==
  IF outcome \in {"e400", "e500"} THEN outcome
  ELSE IF id \notin DOMAIN notes THEN "404"
  ELSE outcome

\* ----------------------------------------------------------- CreateNote
CreateNoteCatch(e, parentId) ==
  IF e.status = 404 THEN Res("Error: Notebook not found", parentId.s)
  ELSE IF e.status = 400 THEN Res("Error: Invalid request data", <<>>)
  ELSE Res(e.msg, e.id)

CreateNoteValidate(title, body, parentId, isTodo, todoDue) ==
  FirstErr(<<validateTitle(title),
             validateOptionalId(parentId),
             validateOptionalBody(body),
             validateOptionalBoolean(isTodo),
             validateOptionalTimestamp(todoDue),
             IF isTodo = Bool(FALSE) /\ Given(todoDue)
             THEN Err(0, "todo_due cannot be set when is_todo is false", <<>>)
             ELSE NoErr>>)

CreateNoteBody(title, body, parentId, isTodo, todoDue) ==
  ("title" :> Str(Trim(title.s)))
  @@ (IF Given(body) THEN "body" :> body ELSE EmptyBody)
  @@ (IF Truthy(parentId) THEN "parent_id" :> parentId ELSE EmptyBody)
  @@ (IF Given(isTodo) THEN "is_todo" :> Num(IF Truthy(isTodo) THEN 1 ELSE 0)
      ELSE EmptyBody)
  @@ (IF Given(todoDue) THEN "todo_due" :> todoDue ELSE EmptyBody)

\* call(): from entry to the POST
CreateNoteEnter(fr) ==
  LET o == fr.op
      e == CreateNoteValidate(o.title, o.body, o.parentId, o.isTodo, o.todoDue)
  IN
  IF e # NoErr THEN Done(fr, CreateNoteCatch(e, o.parentId))
  ELSE Call(fr, "cn_post",
            Request("POST", "notes", <<>>,
                    CreateNoteBody(o.title, o.body, o.parentId, o.isTodo,
                                   o.todoDue)))

CreateNoteCall(p, title, body, parentId, isTodo, todoDue) ==
  /\ inv[p].pc = "idle"
  /\ inv' = [inv EXCEPT ![p] =
       CreateNoteEnter(Begin([NoOp EXCEPT !.name = "createNote",
                                          !.title = title, !.body = body,
                                          !.parentId = parentId,
                                          !.isTodo = isTodo,
                                          !.todoDue = todoDue]))]
  /\ UNCHANGED <<folders, notes, usedIds>>
  /\ UNCHANGED <<listing, collation>>

\* call(): from the POST's answer to the result
CreateNoteWritten(fr, answer, created) ==
  IF answer \in {"e400", "e500"}
  THEN Done(fr, CreateNoteCatch(Thrown(answer), fr.op.parentId))
  ELSE IF answer = "malformed"
  THEN Done(fr, Res("Error: Unexpected response format", <<>>))
  ELSE Done([fr EXCEPT !.resp = created],
            Res("Successfully created note", created.id))

CreateNotePost(p, outcome) ==
  /\ inv[p].pc = "cn_post"
  /\ LET body == LastCall(inv[p]).body IN
     IF outcome \in {"e400", "e500"}
     THEN /\ inv' = [inv EXCEPT ![p] =
                CreateNoteWritten(Answered(inv[p], outcome), outcome, NoResp)]
          /\ UNCHANGED <<notes, usedIds>>
     ELSE \E newId \in NoteIds \ usedIds :
          /\ notes' = ApplyNotePost(notes, newId, body)
          /\ usedIds' = usedIds \cup {newId} \cup RefsOf(body)
          /\ inv' = [inv EXCEPT ![p] =
               CreateNoteWritten(Answered(inv[p], outcome), outcome,
                 [id |-> newId, parent_id |-> notes'[newId].parent_id])]
  /\ UNCHANGED folders
  /\ UNCHANGED <<listing, collation>>

\* ----------------------------------------------------------- UpdateNote
UpdateNoteCatch(e, noteId) ==
  IF e.status = 404 THEN Res("Error: Note not found", noteId.s)
  ELSE IF e.status = 400 THEN Res("Error: Invalid request data", <<>>)
  ELSE Res(e.msg, e.id)

UpdateNoteValidate(noteId, title, body, parentId, isTodo, todoCompleted, todoDue) ==
  FirstErr(<<validateNoteId(noteId),
             validateOptionalTitle(title),
             validateOptionalId(parentId),
             validateOptionalBody(body),
             validateOptionalBoolean(isTodo),
             validateOptionalBoolean(todoCompleted),
             validateOptionalTimestamp(todoDue),
             validateAtLeastOneUpdateField(
               <<title, body, parentId, isTodo, todoCompleted, todoDue>>)>>)

\* mutant: the todo flag is sent whether or not the caller supplied it
UpdateNoteBody_SendsDefaults(title, body, parentId, isTodo, todoCompleted, todoDue) ==
  (IF GivenNonEmpty(title) THEN "title" :> Str(Trim(title.s)) ELSE EmptyBody)
  @@ (IF Given(body) THEN "body" :> body ELSE EmptyBody)
  @@ (IF GivenNonEmpty(parentId) THEN "parent_id" :> parentId ELSE EmptyBody)
  @@ ("is_todo" :> Num(IF Truthy(isTodo) THEN 1 ELSE 0))
  @@ (IF Given(todoCompleted)
      THEN "todo_completed" :> Num(IF Truthy(todoCompleted) THEN Now ELSE 0)
      ELSE EmptyBody)
  @@ (IF Given(todoDue) THEN "todo_due" :> todoDue ELSE EmptyBody)

UpdateNoteBody(title, body, parentId, isTodo, todoCompleted, todoDue) ==
  (IF GivenNonEmpty(title) THEN "title" :> Str(Trim(title.s)) ELSE EmptyBody)
  @@ (IF Given(body) THEN "body" :> body ELSE EmptyBody)
  @@ (IF GivenNonEmpty(parentId) THEN "parent_id" :> parentId ELSE EmptyBody)
  @@ (IF Given(isTodo) THEN "is_todo" :> Num(IF Truthy(isTodo) THEN 1 ELSE 0)
      ELSE EmptyBody)
  @@ (IF Given(todoCompleted)
      THEN "todo_completed" :> Num(IF Truthy(todoCompleted) THEN Now ELSE 0)
      ELSE EmptyBody)
  @@ (IF Given(todoDue) THEN "todo_due" :> todoDue ELSE EmptyBody)

\* call(): from entry to the PUT
UpdateNoteEnter(fr) ==
  LET o == fr.op
      e == UpdateNoteValidate(o.id, o.title, o.body, o.parentId, o.isTodo,
                              o.todoCompleted, o.todoDue)
  IN
  IF e # NoErr THEN Done(fr, UpdateNoteCatch(e, o.id))
  ELSE Call(fr, "un_put",
            Request("PUT", "notes", o.id.s,
                    UpdateNoteBody(o.title, o.body, o.parentId, o.isTodo,
                                   o.todoCompleted, o.todoDue)))

UpdateNoteCall(p, noteId, title, body, parentId, isTodo, todoCompleted, todoDue) ==
  /\ inv[p].pc = "idle"
  /\ inv' = [inv EXCEPT ![p] =
       UpdateNoteEnter(Begin([NoOp EXCEPT !.name = "updateNote", !.id = noteId,
                                          !.title = title, !.body = body,
                                          !.parentId = parentId,
                                          !.isTodo = isTodo,
                                          !.todoCompleted = todoCompleted,
                                          !.todoDue = todoDue]))]
  /\ UNCHANGED <<folders, notes, usedIds>>
  /\ UNCHANGED <<listing, collation>>

\* call(): from the PUT's answer to the result
UpdateNoteWritten(fr, answer) ==
  IF answer \in {"404", "e400", "e500"}
  THEN Done(fr, UpdateNoteCatch(Thrown(answer), fr.op.id))
  ELSE IF answer = "malformed"
  THEN Done(fr, Res("Error: Unexpected response format", <<>>))
  ELSE Done(fr, Res("Successfully updated note", fr.op.id.s))

UpdateNotePut(p, outcome) ==
  /\ inv[p].pc = "un_put"
  /\ LET id == inv[p].op.id.s
         body == LastCall(inv[p]).body
         answer == NoteAnswer(outcome, id)
         applied == answer \in {"ok", "malformed"}
     IN /\ notes' = IF applied THEN ApplyNotePut(notes, id, body) ELSE notes
        /\ usedIds' = IF applied THEN usedIds \cup RefsOf(body) ELSE usedIds
        /\ inv' = [inv EXCEPT ![p] =
                     UpdateNoteWritten(Answered(inv[p], answer), answer)]
  /\ UNCHANGED folders
  /\ UNCHANGED <<listing, collation>>

\* ----------------------------------------------------------- DeleteNote
DeleteNoteCatch(e, noteId) ==
  IF e.status = 404 THEN Res("Error: Note not found", noteId.s)
  ELSE IF e.status = 403 THEN Res("Error: Permission denied", <<>>)
  ELSE IF e.status = 400 THEN Res("Error: Invalid request", <<>>)
  ELSE Res(e.msg, e.id)

DeleteNoteIssueDelete(fr) ==
  Call(fr, "dn_delete", Request("DELETE", "notes", fr.op.id.s, EmptyBody))

\* call(): from entry to the fetch of the note's details
DeleteNoteEnter(fr) ==
  LET e == validateNoteId(fr.op.id) IN
  IF e # NoErr THEN Done(fr, DeleteNoteCatch(e, fr.op.id))
  ELSE Call(fr, "dn_get", Request("GET", "notes", fr.op.id.s, EmptyBody))

DeleteNoteCall(p, noteId) ==
  /\ inv[p].pc = "idle"
  /\ inv' = [inv EXCEPT ![p] =
       DeleteNoteEnter(Begin([NoOp EXCEPT !.name = "deleteNote",
                                          !.id = noteId]))]
  /\ UNCHANGED <<folders, notes, usedIds>>
  /\ UNCHANGED <<listing, collation>>

\* call(): the fetch of the note's details answers
DeleteNoteDetails(p, outcome) ==
  /\ inv[p].pc = "dn_get"
  /\ LET id == inv[p].op.id.s
         answer == NoteAnswer(outcome, id)
         fr == Answered(inv[p], answer)
     IN inv' = [inv EXCEPT ![p] =
          IF answer = "ok" /\ notes[id].parent_id # <<>>
          THEN Call(fr, "dn_parent",
                    Request("GET", "folders", notes[id].parent_id, EmptyBody))
          ELSE DeleteNoteIssueDelete(fr)]
  /\ UNCHANGED <<folders, notes, usedIds>>
  /\ UNCHANGED <<listing, collation>>

\* call(): the lookup of the notebook's title answers
DeleteNoteParentInfo(p, outcome) ==
  /\ inv[p].pc = "dn_parent"
  /\ inv' = [inv EXCEPT ![p] =
       DeleteNoteIssueDelete(
         Answered(inv[p], FolderAnswer(outcome, LastCall(inv[p]).id)))]
  /\ UNCHANGED <<folders, notes, usedIds>>
  /\ UNCHANGED <<listing, collation>>

\* call(): the DELETE answers
DeleteNoteDelete(p, outcome) ==
  /\ inv[p].pc = "dn_delete"
  /\ LET id == inv[p].op.id.s
         answer == NoteAnswer(outcome, id)
         fr == Answered(inv[p], answer)
     IN /\ notes' = IF answer = "ok" THEN ApplyNoteDelete(notes, id) ELSE notes
        /\ inv' = [inv EXCEPT ![p] =
             IF answer # "ok"
             THEN Done(fr, DeleteNoteCatch(Thrown(answer), fr.op.id))
             ELSE Done(fr, Res("Successfully moved note to trash", id))]
  /\ UNCHANGED <<folders, usedIds>>
  /\ UNCHANGED <<listing, collation>>

\* -------------------------------------------------------- ListNotebooks
\* String.fromCharCode('A'.charCodeAt(0) - 1)
CHARACTER_BEFORE_A == "@"

RECURSIVE ReplaceBracket(_)
\* title.replace('[', CHARACTER_BEFORE_A): a string pattern replaces the first
\* occurrence only
ReplaceBracket(s) ==
  IF s = <<>> THEN s
  ELSE IF Head(s) = "[" THEN <<CHARACTER_BEFORE_A>> \o Tail(s)
  ELSE <<Head(s)>> \o ReplaceBracket(Tail(s))

\* The place of a character in the order localeCompare follows. With ICU
\* collation data ("icu"): white space, then punctuation with the brackets
\* before '@', then digits, then letters. Without it ("codeunit"): the order of
\* the UTF-16 code units.
Rank(c, ch) ==
  IF c = "icu"
  THEN CASE ch = " " -> 1 [] ch = "[" -> 2 [] ch = "]" -> 3 [] ch = "@" -> 4
         [] ch = "0" -> 5 [] ch = "1" -> 6 [] ch = "A" -> 7 [] ch = "B" -> 8
         [] ch = "T" -> 9 [] ch = "Z" -> 10 [] OTHER -> 11
  ELSE CASE ch = " " -> 1 [] ch = "0" -> 2 [] ch = "1" -> 3 [] ch = "@" -> 4
         [] ch = "A" -> 5 [] ch = "B" -> 6 [] ch = "T" -> 7 [] ch = "Z" -> 8
         [] ch = "[" -> 9 [] ch = "]" -> 10 [] OTHER -> 11

RECURSIVE localeCompare(_, _, _)
\* a.localeCompare(b): negative, zero or positive
localeCompare(a, b, c) ==
  IF a = <<>> /\ b = <<>> THEN 0
  ELSE IF a = <<>> THEN -1
  ELSE IF b = <<>> THEN 1
  ELSE IF Rank(c, Head(a)) < Rank(c, Head(b)) THEN -1
  ELSE IF Rank(c, Head(a)) > Rank(c, Head(b)) THEN 1
  ELSE localeCompare(Tail(a), Tail(b), c)

\* the comparator of sortNotebooks
CompareNotebooks(a, b, c) ==
  localeCompare(ReplaceBracket(a.title), ReplaceBracket(b.title), c)

RECURSIVE InsertNotebook(_, _, _)
\* Array.prototype.sort is stable: a record goes behind the records that do
\* not compare greater than it
InsertNotebook(sorted, r, c) ==
  IF sorted = <<>> THEN <<r>>
  ELSE IF CompareNotebooks(Head(sorted), r, c) > 0 THEN <<r>> \o sorted
  ELSE <<Head(sorted)>> \o InsertNotebook(Tail(sorted), r, c)

RECURSIVE sortNotebooks(_, _)
\* sortNotebooks: a sorted copy of the group
sortNotebooks(notebooks, c) ==
  IF notebooks = <<>> THEN <<>>
  ELSE InsertNotebook(sortNotebooks(SubSeq(notebooks, 1, Len(notebooks) - 1), c),
                      notebooks[Len(notebooks)], c)

\* notebooksByParentId: parent reference -> the records carrying it, in the
\* order of the collection
notebooksByParentId(items) ==
  [k \in {items[i].parent_id : i \in 1..Len(items)} |->
     SelectSeq(items, LAMBDA r : r.parent_id = k)]

\* what notebooksLines gives back: its lines, or the exception that ended it
Rendered(lines) == [thrown |-> FALSE, lines |-> lines]
RenderThrew == [thrown |-> TRUE, lines |-> <<>>]

Line(r, indent) == [id |-> r.id, title |-> r.title, indent |-> indent]

RECURSIVE notebooksLines(_, _, _, _, _)
RECURSIVE ForEachNotebook(_, _, _, _, _)
\* the forEach of notebooksLines over the sorted group: one line for the
\* record, then the lines of its children when the mapping has a group for it
ForEachNotebook(sorted, indent, byParent, c, depth) ==
  IF sorted = <<>> THEN Rendered(<<>>)
  ELSE LET r == Head(sorted)
           below == IF r.id \in DOMAIN byParent
                    THEN notebooksLines(byParent[r.id], indent + 2, byParent,
                                        c, depth + 1)
                    ELSE Rendered(<<>>)
       IN IF below.thrown THEN RenderThrew
          ELSE LET rest == ForEachNotebook(Tail(sorted), indent, byParent, c,
                                           depth)
               IN IF rest.thrown THEN RenderThrew
                  ELSE Rendered(<<Line(r, indent)>> \o below.lines \o rest.lines)

\* notebooksLines. A nesting deeper than the number of records of the mapping
\* passes through one record twice and so never ends: the call stack
\* overflows (RangeError).
notebooksLines(notebooks, indent, byParent, c, depth) ==
  IF depth > Cardinality(UNION {{<<k, i>> : i \in 1..Len(byParent[k])} :
                                  k \in DOMAIN byParent})
  THEN RenderThrew
  ELSE ForEachNotebook(sortNotebooks(notebooks, c), indent, byParent, c, depth)

\* call(): the rendering of the hierarchy from the root group; a collection
\* without a root group hands undefined to sortNotebooks, whose spread throws
RenderHierarchy(items, c) ==
  LET byParent == notebooksByParentId(items) IN
  IF <<>> \notin DOMAIN byParent THEN RenderThrew
  ELSE notebooksLines(byParent[<<>>], 0, byParent, c, 1)

ListNotebooksCall(p) ==
  /\ inv[p].pc = "idle"
  /\ inv' = [inv EXCEPT ![p] =
       Call(Begin([NoOp EXCEPT !.name = "listNotebooks"]), "ln_all",
            Request("GET", "folders*", <<>>, EmptyBody))]
  /\ UNCHANGED <<folders, notes, usedIds, listing, collation>>

\* mutant: a failed fetch is swallowed and the listing reports the header alone
ListNotebooksRender_SwallowsFailure(fr, answer, items) ==
  IF answer # "ok" THEN Done(fr, Res("Joplin Notebooks", <<>>))
  ELSE LET out == RenderHierarchy(items, collation) IN
       IF out.thrown
       THEN Done([fr EXCEPT !.notebooks = items],
                 Res("Error listing notebooks", <<>>))
       ELSE Done([fr EXCEPT !.notebooks = items, !.lines = out.lines],
                 Res("Joplin Notebooks", <<>>))

\* a listing whose result lines outlive the invocation
ListNotebooksRender_SharedLines(fr, answer, items) ==
  IF answer # "ok" THEN Done(fr, Res("Error listing notebooks", <<>>))
  ELSE LET out == RenderHierarchy(items, collation)
           kept == IF \E q \in Procs : inv[q].pc = "done"
                   THEN inv[CHOOSE q \in Procs : inv[q].pc = "done"].lines
                   ELSE <<>> IN
       IF out.thrown
       THEN Done([fr EXCEPT !.notebooks = items],
                 Res("Error listing notebooks", <<>>))
       ELSE Done([fr EXCEPT !.notebooks = items, !.lines = kept \o out.lines],
                 Res("Joplin Notebooks", <<>>))

\* call(): from the answer of getAllItems to the result
ListNotebooksRender(fr, answer, items) ==
  IF answer # "ok" THEN Done(fr, Res("Error listing notebooks", <<>>))
  ELSE LET out == RenderHierarchy(items, collation) IN
       IF out.thrown
       THEN Done([fr EXCEPT !.notebooks = items],
                 Res("Error listing notebooks", <<>>))
       ELSE Done([fr EXCEPT !.notebooks = items, !.lines = out.lines],
                 Res("Joplin Notebooks", <<>>))

ListNotebooksFetched(p, outcome) ==
  /\ inv[p].pc = "ln_all"
  /\ inv' = [inv EXCEPT ![p] =
       ListNotebooksRender(Answered(inv[p], outcome), outcome, listing)]
  /\ UNCHANGED <<folders, notes, usedIds, listing, collation>>

\* ------------------------------------------------------- backend: pages
\* the page of the collection that follows the first `got` items
PageAfter(coll, got) ==
  SubSeq(coll, got + 1, IF got + PageSize < Len(coll) THEN got + PageSize
                        ELSE Len(coll))

\* the continuation indicator of that page
has_more(coll, got) == got + PageSize < Len(coll)

\* ------------------------------------------------------------ ReadNotebook
\* an exception leaves call(): the promise it returned is rejected
Escaped(fr) == [fr EXCEPT !.pc = "escaped"]

\* id.length < 10 || !id.match(/[a-f0-9]/i), evaluated on a truthy value before
\* the try: a number or a boolean has no length (undefined < 10 is false) and
\* no match method, so the second operand throws a TypeError
LooksLikeTitle(id) ==
  IF id.t # "string" THEN "TypeError"
  ELSE IF Len(id.s) < 10 \/ ~\E i \in 1..Len(id.s) : id.s[i] \in HexChars
  THEN "yes" ELSE "no"

GetOutcomes == {"ok", "malformed", "e400", "e500"}

\* mutant: the catch does not tell not-found from the other failures
ReadNotebookCatch_NoStatus(e, notebookId) ==
  Res("Error reading notebook: ${error.message}", <<>>)

\* the texts are the first sentence of each message; ${...} stands for the value
\* the message interpolates, which the result carries in its id field
ReadNotebookCatch(e, notebookId) ==
  IF e.status = 404
  THEN Res("Notebook with ID \"${notebookId}\" not found.", notebookId.s)
  ELSE Res("Error reading notebook: ${error.message}", <<>>)

ReadNotebookCall(p, notebookId) ==
  /\ inv[p].pc = "idle"
  /\ LET fr == Begin([NoOp EXCEPT !.name = "readNotebook", !.id = notebookId])
     IN inv' = [inv EXCEPT ![p] =
          IF ~Truthy(notebookId)
          THEN Done(fr, Res("Please provide a notebook ID. Example: read_notebook notebook_id=\"your-notebook-id\"",
                            <<>>))
          ELSE IF LooksLikeTitle(notebookId) = "TypeError" THEN Escaped(fr)
          ELSE IF LooksLikeTitle(notebookId) = "yes"
          THEN Done(fr, Res("Error: \"${notebookId}\" does not appear to be a valid notebook ID.",
                            notebookId.s))
          ELSE Call(fr, "rb_get",
                    Request("GET", "folders", notebookId.s, EmptyBody))]
  /\ UNCHANGED <<folders, notes, usedIds, listing, collation>>

\* call(): the fetch of the notebook answers
ReadNotebookDetails(p, outcome) ==
  /\ inv[p].pc = "rb_get"
  /\ LET id == inv[p].op.id.s
         answer == FolderAnswer(outcome, id)
         fr == Answered(inv[p], answer)
     IN inv' = [inv EXCEPT ![p] =
          IF answer = "ok"
          THEN Call(fr, "rb_notes", Request("GET", "folders/notes", id, EmptyBody))
          ELSE IF answer = "malformed"
          THEN Done(fr, Res("Error: Unexpected response format", <<>>))
          ELSE Done(fr, ReadNotebookCatch(Thrown(answer), fr.op.id))]
  /\ UNCHANGED <<folders, notes, usedIds, listing, collation>>

\* the notes the backend holds in a folder, in backend order
NotesIn(id) ==
  SelectSeq([i \in 1..Len(NoteIdChars) |-> MkId(NoteIdChars[i])],
            LAMBDA n : n \in DOMAIN notes /\ notes[n].parent_id = id)

\* the backend keeps no modification times in this model: every note has the same
updated_time == 0

RECURSIVE InsertNewest(_, _)
InsertNewest(sorted, n) ==
  IF sorted = <<>> THEN <<n>>
  ELSE IF updated_time - updated_time < 0 THEN <<n>> \o sorted
  ELSE <<Head(sorted)>> \o InsertNewest(Tail(sorted), n)

RECURSIVE sortedNotes(_)
\* [...notes.items].sort((a, b) => b.updated_time - a.updated_time), stable
sortedNotes(items) ==
  IF items = <<>> THEN <<>>
  ELSE InsertNewest(sortedNotes(SubSeq(items, 1, Len(items) - 1)),
                    items[Len(items)])

\* call(): the one request for the notebook's notes answers with the first
\* page; the notes listed and the number reported are those of that page
ReadNotebookNotes(p, outcome) ==
  /\ inv[p].pc = "rb_notes"
  /\ LET id == inv[p].op.id.s
         answer == FolderAnswer(outcome, id)
         fr == Answered(inv[p], answer)
     IN inv' = [inv EXCEPT ![p] =
          IF answer = "ok"
          THEN IF PageAfter(NotesIn(id), 0) = <<>>
               THEN Done(fr, Res("Notebook \"${notebook.title}\" (notebook_id: \"${notebook.id}\") is empty.",
                                 id))
               ELSE Done([fr EXCEPT !.lines =
                            sortedNotes(PageAfter(NotesIn(id), 0))],
                         Res("# Notebook: \"${notebook.title}\" (notebook_id: \"${notebook.id}\")",
                             id))
          ELSE IF answer = "malformed"
          THEN Done(fr, Res("Error: Unexpected response format", <<>>))
          ELSE Done(fr, ReadNotebookCatch(Thrown(answer), fr.op.id))]
  /\ UNCHANGED <<folders, notes, usedIds, listing, collation>>

\* ---------------------------------------------------------------- ReadNote
ReadNoteCatch(e) ==
  IF e.status = 404 THEN Res("Note not found", <<>>)
  ELSE Res("Error reading note", <<>>)

ReadNoteCall(p, noteId) ==
  /\ inv[p].pc = "idle"
  /\ LET fr == Begin([NoOp EXCEPT !.name = "readNote", !.id = noteId])
     IN inv' = [inv EXCEPT ![p] =
          IF ~Truthy(noteId)
          THEN Done(fr, Res("Please provide a note ID", <<>>))
          ELSE IF LooksLikeTitle(noteId) = "TypeError" THEN Escaped(fr)
          ELSE IF LooksLikeTitle(noteId) = "yes"
          THEN Done(fr, Res("Error: not a valid note ID", <<>>))
          ELSE Call(fr, "rn_get", Request("GET", "notes", noteId.s, EmptyBody))]
  /\ UNCHANGED <<folders, notes, usedIds, listing, collation>>

\* call(): the fetch of the note answers
ReadNoteDetails(p, outcome) ==
  /\ inv[p].pc = "rn_get"
  /\ LET id == inv[p].op.id.s
         answer == NoteAnswer(outcome, id)
         fr == Answered(inv[p], answer)
     IN inv' = [inv EXCEPT ![p] =
          IF answer = "ok"
          THEN IF notes[id].parent_id # <<>>
               THEN Call(fr, "rn_parent",
                         Request("GET", "folders", notes[id].parent_id, EmptyBody))
               ELSE Done(fr, Res("Note contents", id))
          ELSE IF answer = "malformed"
          THEN Done(fr, Res("Error: Unexpected response format", <<>>))
          ELSE Done(fr, ReadNoteCatch(Thrown(answer)))]
  /\ UNCHANGED <<folders, notes, usedIds, listing, collation>>

\* call(): the lookup of the notebook's title answers; a failure is swallowed
ReadNoteParentInfo(p, outcome) ==
  /\ inv[p].pc = "rn_parent"
  /\ inv' = [inv EXCEPT ![p] =
       Done(Answered(inv[p], FolderAnswer(outcome, LastCall(inv[p]).id)),
            Res("Note contents", inv[p].op.id.s))]
  /\ UNCHANGED <<folders, notes, usedIds, listing, collation>>

\* -------------------------------------------------------------- GetAllNotes
validatePaginationParams(page, limit) ==
  IF Given(page) /\ (page.t # "number" \/ page.n < 1)
  THEN Err(0, "Page must be a positive number starting from 1", <<>>)
  ELSE IF Given(limit) /\ (limit.t # "number" \/ limit.n < 1 \/ limit.n > 100)
  THEN Err(0, "Limit must be a number between 1 and 100", <<>>)
  ELSE NoErr

ToUpperChar(ch) ==
  CASE ch = "a" -> "A" [] ch = "s" -> "S" [] ch = "c" -> "C"
    [] ch = "d" -> "D" [] ch = "e" -> "E" [] OTHER -> ch

toUpperCase(s) == [i \in 1..Len(s) |-> ToUpperChar(s[i])]

validOrderFields ==
  {<<"i", "d">>, <<"t", "i", "t", "l", "e">>,
   <<"c", "r", "e", "a", "t", "e", "d", "_", "t", "i", "m", "e">>,
   <<"u", "p", "d", "a", "t", "e", "d", "_", "t", "i", "m", "e">>,
   <<"u", "s", "e", "r", "_", "c", "r", "e", "a", "t", "e", "d", "_",
     "t", "i", "m", "e">>,
   <<"u", "s", "e", "r", "_", "u", "p", "d", "a", "t", "e", "d", "_",
     "t", "i", "m", "e">>}

validOrderDirections == {<<"A", "S", "C">>, <<"D", "E", "S", "C">>}

validateOrderParams(orderBy, orderDir) ==
  IF GivenNonEmpty(orderBy)
     /\ (orderBy.t # "string" \/ orderBy.s \notin validOrderFields)
  THEN Err(0, "Order by must be one of the order fields", <<>>)
  ELSE IF GivenNonEmpty(orderDir)
          /\ (orderDir.t # "string"
              \/ toUpperCase(orderDir.s) \notin validOrderDirections)
  THEN Err(0, "Order direction must be ASC or DESC", <<>>)
  ELSE NoErr

\* v || d
OrElse(v, d) == IF Truthy(v) THEN v ELSE d

\* the query of GET /notes, defaults filled in
GetAllNotesQuery(folderId, page, limit, orderBy, orderDir) ==
  LET actualLimit == OrElse(limit, Num(50))
      q == [k \in {"page", "limit", "order_by", "order_dir"} |->
              CASE k = "page" -> OrElse(page, Num(1))
                [] k = "limit" -> IF actualLimit.n < 100 THEN actualLimit
                                  ELSE Num(100)
                [] k = "order_by" ->
                     OrElse(orderBy,
                            Str(<<"u", "p", "d", "a", "t", "e", "d", "_",
                                  "t", "i", "m", "e">>))
                [] k = "order_dir" ->
                     Str(toUpperCase(OrElse(orderDir,
                                            Str(<<"D", "E", "S", "C">>)).s))]
  IN IF Truthy(folderId) THEN q @@ ("parent_id" :> folderId) ELSE q

GetAllNotesCatch(e) ==
  IF e.status = 404 THEN Res("Error: Folder not found", <<>>)
  ELSE IF e.status = 400 THEN Res("Error: Invalid request parameters", <<>>)
  ELSE Res(e.msg, e.id)

GetAllNotesCall(p, folderId, page, limit, orderBy, orderDir) ==
  /\ inv[p].pc = "idle"
  /\ LET fr == Begin([NoOp EXCEPT !.name = "getAllNotes", !.parentId = folderId])
         e == FirstErr(<<validateOptionalId(folderId),
                         validatePaginationParams(page, limit),
                         validateOrderParams(orderBy, orderDir)>>)
     IN inv' = [inv EXCEPT ![p] =
          IF e # NoErr THEN Done(fr, GetAllNotesCatch(e))
          ELSE Call(fr, "gan_notes",
                    Request("GET", "notes", <<>>,
                            GetAllNotesQuery(folderId, page, limit,
                                             orderBy, orderDir)))]
  /\ UNCHANGED <<folders, notes, usedIds, listing, collation>>

\* the page of notes the backend answers with: those of the folder asked for,
\* or all of them
NotesPage(folderId) ==
  SelectSeq([i \in 1..Len(NoteIdChars) |-> MkId(NoteIdChars[i])],
            LAMBDA n : /\ n \in DOMAIN notes
                       /\ Truthy(folderId) => notes[n].parent_id = folderId.s)

RECURSIVE UniqueParents(_, _)
\* [...new Set(notes.map(note => note.parent_id).filter(id => id))]
UniqueParents(page, seen) ==
  IF page = <<>> THEN <<>>
  ELSE LET q == notes[Head(page)].parent_id IN
       IF q = <<>> \/ q \in seen THEN UniqueParents(Tail(page), seen)
       ELSE <<q>> \o UniqueParents(Tail(page), seen \cup {q})

\* the loop over folderIds: the next lookup, or the listing when none is left
GetAllNotesNextFolder(fr) ==
  IF fr.queue = <<>> THEN Done(fr, Res("Notes listing", <<>>))
  ELSE Call([fr EXCEPT !.queue = Tail(@)], "gan_folder",
            Request("GET", "folders", Head(fr.queue), EmptyBody))

\* call(): GET /notes answers
GetAllNotesFetched(p, outcome) ==
  /\ inv[p].pc = "gan_notes"
  /\ LET fr == Answered(inv[p], outcome)
         page == NotesPage(inv[p].op.parentId)
     IN inv' = [inv EXCEPT ![p] =
          IF outcome = "ok"
          THEN IF page = <<>> THEN Done(fr, Res("No notes found", <<>>))
               ELSE GetAllNotesNextFolder(
                      [fr EXCEPT !.queue = UniqueParents(page, {})])
          ELSE IF outcome = "malformed"
          THEN Done(fr, Res("Error: Unexpected response format", <<>>))
          ELSE Done(fr, GetAllNotesCatch(Thrown(outcome)))]
  /\ UNCHANGED <<folders, notes, usedIds, listing, collation>>

\* call(): one folder-name lookup answers; a failure is swallowed
GetAllNotesFolder(p, outcome) ==
  /\ inv[p].pc = "gan_folder"
  /\ inv' = [inv EXCEPT ![p] =
       GetAllNotesNextFolder(
         Answered(inv[p], FolderAnswer(outcome, LastCall(inv[p]).id)))]
  /\ UNCHANGED <<folders, notes, usedIds, listing, collation>>

\* ---------------------------------------------------------------- GetFolder
GetFolderCatch(e, folderId) ==
  IF e.status = 404 THEN Res("Error: Folder not found", folderId.s)
  ELSE IF e.status = 403 THEN Res("Error: Permission denied", <<>>)
  ELSE IF e.status = 400 THEN Res("Error: Invalid request", <<>>)
  ELSE Res(e.msg, e.id)

GetFolderIssueList(fr) ==
  Call(fr, "gf_all", Request("GET", "folders*", <<>>, EmptyBody))

GetFolderCall(p, folderId) ==
  /\ inv[p].pc = "idle"
  /\ LET fr == Begin([NoOp EXCEPT !.name = "getFolder", !.id = folderId])
         e == validateFolderId(folderId)
     IN inv' = [inv EXCEPT ![p] =
          IF e # NoErr THEN Done(fr, GetFolderCatch(e, folderId))
          ELSE Call(fr, "gf_get", Request("GET", "folders", folderId.s, EmptyBody))]
  /\ UNCHANGED <<folders, notes, usedIds, listing, collation>>

\* call(): the fetch of the folder's details answers
GetFolderDetails(p, outcome) ==
  /\ inv[p].pc = "gf_get"
  /\ LET id == inv[p].op.id.s
         answer == FolderAnswer(outcome, id)
         fr == Answered(inv[p], answer)
     IN inv' = [inv EXCEPT ![p] =
          IF answer = "ok"
          THEN IF folders[id].parent_id # <<>>
               THEN Call(fr, "gf_parent",
                         Request("GET", "folders", folders[id].parent_id, EmptyBody))
               ELSE GetFolderIssueList(fr)
          ELSE IF answer = "malformed"
          THEN Done(fr, Res("Error: Unexpected response format", <<>>))
          ELSE Done(fr, GetFolderCatch(Thrown(answer), fr.op.id))]
  /\ UNCHANGED <<folders, notes, usedIds, listing, collation>>

\* call(): the lookup of the parent's title answers; a failure is swallowed
GetFolderParentInfo(p, outcome) ==
  /\ inv[p].pc = "gf_parent"
  /\ inv' = [inv EXCEPT ![p] =
       GetFolderIssueList(
         Answered(inv[p], FolderAnswer(outcome, LastCall(inv[p]).id)))]
  /\ UNCHANGED <<folders, notes, usedIds, listing, collation>>

RECURSIVE InsertByTitle(_, _, _)
InsertByTitle(sorted, r, c) ==
  IF sorted = <<>> THEN <<r>>
  ELSE IF localeCompare(r.title, Head(sorted).title, c) < 0 THEN <<r>> \o sorted
  ELSE <<Head(sorted)>> \o InsertByTitle(Tail(sorted), r, c)

RECURSIVE SortByTitle(_, _)
\* subfolders.sort((a, b) => a.title.localeCompare(b.title)); the sort is stable
SortByTitle(items, c) ==
  IF items = <<>> THEN <<>>
  ELSE InsertByTitle(SortByTitle(SubSeq(items, 1, Len(items) - 1), c),
                     items[Len(items)], c)

\* call(): from the answer of getAllItems on: the sub-folders are the fetched
\* records whose parent_id is the folder, none when the fetch failed
GetFolderListed(fr, answer, items) ==
  Call([fr EXCEPT !.lines =
          IF answer # "ok" THEN <<>>
          ELSE SortByTitle(
                 SelectSeq(items, LAMBDA f : /\ "parent_id" \in DOMAIN f
                                             /\ f.parent_id = fr.op.id.s),
                 collation)],
       "gf_notes", Request("GET", "folders/notes", fr.op.id.s, EmptyBody))

\* call(): the notes of the folder answer; a failure is swallowed
GetFolderNotes(p, outcome) ==
  /\ inv[p].pc = "gf_notes"
  /\ inv' = [inv EXCEPT ![p] =
       Done(Answered(inv[p], FolderAnswer(outcome, inv[p].op.id.s)),
            Res("Folder details", inv[p].op.id.s))]
  /\ UNCHANGED <<folders, notes, usedIds, listing, collation>>

\* -------------------------------------------------- getAllItems, page by page
\* the fields an operation asks getAllItems for
ProjectedFields(name) ==
  IF name = "getFolder" THEN {"id", "title"} ELSE {"id", "title", "parent_id"}

Project(r, fields) == [k \in fields |-> r[k]]

\* the caller resumes with the answer of getAllItems
GetAllItemsReturn(fr, answer, items) ==
  CASE fr.pc = "ln_all" -> ListNotebooksRender(fr, answer, items)
    [] fr.pc = "df_all" -> DeleteFolderListed(fr, answer, items)
    [] fr.pc = "gf_all" -> GetFolderListed(fr, answer, items)

\* mutant: each page is put in front of the items gathered so far
GetAllItemsPage_Prepends(p, outcome) ==
  /\ inv[p].pc \in {"ln_all", "df_all", "gf_all"}
  /\ LET fr == Answered(inv[p], outcome)
         got == Len(fr.queue)
         page == [i \in 1..Len(PageAfter(listing, got)) |->
                    Project(PageAfter(listing, got)[i],
                            ProjectedFields(fr.op.name))]
     IN inv' = [inv EXCEPT ![p] =
          IF outcome # "ok" THEN GetAllItemsReturn(fr, outcome, <<>>)
          ELSE IF has_more(listing, got)
          THEN Call([fr EXCEPT !.queue = page \o @], fr.pc,
                    Request("GET", "folders*", <<>>, EmptyBody))
          ELSE GetAllItemsReturn([fr EXCEPT !.queue = page \o @], "ok",
                                 page \o fr.queue)]
  /\ UNCHANGED <<folders, notes, usedIds, listing, collation>>

\* getAllItems: one page request answers. A failure ends the fetch with the
\* error; a page that has more is followed by the request for the next; the
\* last page ends the fetch with all the items, in the order they came.
GetAllItemsPage(p, outcome) ==
  /\ inv[p].pc \in {"ln_all", "df_all", "gf_all"}
  /\ LET fr == Answered(inv[p], outcome)
         got == Len(fr.queue)
         page == [i \in 1..Len(PageAfter(listing, got)) |->
                    Project(PageAfter(listing, got)[i],
                            ProjectedFields(fr.op.name))]
     IN inv' = [inv EXCEPT ![p] =
          IF outcome # "ok" THEN GetAllItemsReturn(fr, outcome, <<>>)
          ELSE IF has_more(listing, got)
          THEN Call([fr EXCEPT !.queue = @ \o page], fr.pc,
                    Request("GET", "folders*", <<>>, EmptyBody))
          ELSE GetAllItemsReturn([fr EXCEPT !.queue = @ \o page], "ok",
                                 fr.queue \o page)]
  /\ UNCHANGED <<folders, notes, usedIds, listing, collation>>

\* the handler's promise resolves: the text goes to the caller, the frame is gone
Return(p) ==
  /\ inv[p].pc = "done"
  /\ inv' = [inv EXCEPT ![p] = IdleFrame]
  /\ UNCHANGED <<folders, notes, usedIds>>
  /\ UNCHANGED <<listing, collation>>

\* ------------------------------------------- sequential folder operations
FolderArgs == {Str(i) : i \in FolderIds}
ParentArgs == {Undef, Null, Str(<<>>)} \cup FolderArgs
TitleArgs == {Undef, Str(DefaultTitle)}
ReadOutcomes == {"ok", "e400", "e500"}
WriteOutcomes == {"ok", "malformed", "e400", "e500"}

\* every store over the identifier pool: the backend enforces no invariant
FolderStores ==
  UNION {[S -> {FolderRec(DefaultTitle, q) : q \in FolderIds \cup {<<>>}}] :
           S \in SUBSET FolderIds}

IdsIn(f) == DOMAIN f \cup ({f[i].parent_id : i \in DOMAIN f} \ {<<>>})

Init ==
  /\ folders \in FolderStores
  /\ notes = <<>>
  /\ usedIds = IdsIn(folders)
  /\ inv = [p \in Procs |-> IdleFrame]
  /\ listing = ListingOf(folders)
  /\ collation = "icu"

Next ==
  \/ \E f \in FolderArgs, t \in TitleArgs, q \in ParentArgs :
       UpdateFolderCall(1, f, t, q)
  \/ \E o \in ReadOutcomes : UpdateFolderWalkStep(1, o)
  \/ \E o \in WriteOutcomes : UpdateFolderPut(1, o)
  \/ \E o \in ReadOutcomes : UpdateFolderParentInfo(1, o)
  \/ \E q \in ParentArgs : CreateFolderCall(1, Str(DefaultTitle), q)
  \/ \E o \in WriteOutcomes : CreateFolderPost(1, o)
  \/ \E o \in ReadOutcomes : CreateFolderParentInfo(1, o)
  \/ \E f \in FolderArgs : DeleteFolderCall(1, f)
  \/ \E o \in ReadOutcomes : DeleteFolderDetails(1, o)
  \/ \E o \in ReadOutcomes : DeleteFolderParentInfo(1, o)
  \/ \E o \in ReadOutcomes : DeleteFolderList(1, o)
  \/ \E o \in ReadOutcomes : DeleteFolderNotes(1, o)
  \/ \E o \in ReadOutcomes, c \in BOOLEAN : DeleteFolderDelete(1, o, c)
  \/ Return(1)

Spec == Init /\ [][Next]_vars

\* ======================================================================
\* Properties of the sequential folder operations (Spec)
\* ======================================================================
RECURSIVE EndsWithin(_, _, _)
\* following parent references from id ends (root or missing folder) in k hops
EndsWithin(f, id, k) ==
  IF id = <<>> \/ id \notin DOMAIN f THEN TRUE
  ELSE IF k = 0 THEN FALSE
  ELSE EndsWithin(f, f[id].parent_id, k - 1)

Acyclic(f) == \A id \in DOMAIN f : EndsWithin(f, id, Cardinality(DOMAIN f))

RECURSIVE OnChain(_, _, _, _)
\* x is met when following parent references from id (id itself included)
OnChain(f, id, x, k) ==
  IF id = <<>> THEN FALSE
  ELSE IF id = x THEN TRUE
  ELSE IF id \notin DOMAIN f \/ k = 0 THEN FALSE
  ELSE OnChain(f, f[id].parent_id, x, k - 1)

RECURSIVE SafeChain(_, _, _, _)
\* from id every folder exists and a root is reached without meeting x
SafeChain(f, id, x, k) ==
  IF id = <<>> THEN TRUE
  ELSE IF id = x \/ id \notin DOMAIN f \/ k = 0 THEN FALSE
  ELSE SafeChain(f, f[id].parent_id, x, k - 1)

Size(f) == Cardinality(DOMAIN f)

Writes(fr) == {i \in 1..Len(fr.calls) : IsWrite(fr.calls[i])}
NoWrite(fr) == Writes(fr) = {}

\* the fetches of the ancestry walk: the reads issued before any write
WalkFetches(fr) ==
  {i \in 1..Len(fr.calls) : \A j \in 1..i : fr.calls[j].m = "GET"}

AnsweredCalls(fr) == 1..Len(fr.answers)

AllFetchesOk(fr) ==
  \A i \in AnsweredCalls(fr) : fr.calls[i].m = "GET" => fr.answers[i] = "ok"

DescendantError == Res("Cannot move folder to be its own descendant", <<>>)
SelfMoveError == Res("A folder cannot be moved to itself", <<>>)
CircularError == Res("Circular reference detected", <<>>)

FinishedUpdateFolder(fr) == fr.pc = "done" /\ fr.op.name = "updateFolder"

\* updateFolder(X, parent = P) with P # X and X on the ancestor chain of P
MovesUnderDescendant(fr) ==
  /\ Truthy(fr.op.parentId)
  /\ fr.op.parentId # fr.op.id
  /\ UpdateFolderValidate(fr.op.id, fr.op.title, fr.op.parentId) = NoErr
  /\ Acyclic(fr.pre)
  /\ OnChain(fr.pre, fr.op.parentId.s, fr.op.id.s, Size(fr.pre))

\* C1: run one at a time, createFolder, updateFolder and deleteFolder keep an
\* acyclic parent relation acyclic: no step of any of them closes a cycle.
C1_AcyclicPreserved == [][Acyclic(folders) => Acyclic(folders')]_vars

\* an accepted relocation has changed a parent reference of an acyclic store
C1_Witness ==
  /\ FinishedUpdateFolder(inv[1])
  /\ inv[1].result.text = "Successfully updated folder"
  /\ Acyclic(inv[1].pre)
  /\ inv[1].pre # folders
  /\ \E i \in DOMAIN folders : folders[i].parent_id \in DOMAIN folders

\* C2 (as stated): moving X under a folder that has X among its ancestors
\* always returns the descendant error and issues no write.
C2_Original ==
  (FinishedUpdateFolder(inv[1]) /\ MovesUnderDescendant(inv[1]))
    => (inv[1].result = DescendantError /\ NoWrite(inv[1]))

\* C2 (amended): such a move never issues a write, and it returns the
\* descendant error whenever every fetch of the walk succeeded.
C2_DescendantRejected ==
  (FinishedUpdateFolder(inv[1]) /\ MovesUnderDescendant(inv[1]))
    => /\ NoWrite(inv[1])
       /\ AllFetchesOk(inv[1]) => inv[1].result = DescendantError

\* chain F -> A -> B -> root, parent F proposed for B's child A: two hops away
C2_Witness ==
  /\ FinishedUpdateFolder(inv[1]) /\ MovesUnderDescendant(inv[1])
  /\ inv[1].result = DescendantError
  /\ Len(inv[1].calls) = 1
  /\ {inv[1].op.parentId.s, inv[1].op.id.s} \subseteq DOMAIN inv[1].pre
  /\ inv[1].pre[inv[1].op.parentId.s].parent_id = inv[1].op.id.s
  /\ inv[1].pre[inv[1].op.id.s].parent_id \in DOMAIN inv[1].pre
  /\ inv[1].pre[inv[1].pre[inv[1].op.id.s].parent_id].parent_id = <<>>

\* C3: updateFolder(F, parent = F) is rejected with the self-move error and has
\* issued no backend call at all.
C3_SelfParentNoCall ==
  (FinishedUpdateFolder(inv[1]) /\ inv[1].op.parentId = inv[1].op.id)
    => (inv[1].result = SelfMoveError /\ inv[1].calls = <<>>)

C3_Witness ==
  /\ FinishedUpdateFolder(inv[1])
  /\ inv[1].op.parentId = inv[1].op.id
  /\ inv[1].op.id.s \in DOMAIN folders
  /\ inv[1].result = SelfMoveError

\* the walk (or the self-move test) has rejected the relocation
WalkRejected(fr) ==
  /\ FinishedUpdateFolder(fr)
  /\ \/ fr.result \in {SelfMoveError, DescendantError, CircularError}
     \/ fr.result.text = "Parent folder not found"
     \/ /\ fr.answers # <<>>
        /\ LastCall(fr).m = "GET"
        /\ fr.answers[Len(fr.answers)] \in {"e400", "e500"}
        /\ fr.result.text # "Successfully updated folder"

\* C4: when the relocation is rejected (self-parent, descendant, cycle, missing
\* ancestor, failed hop fetch) no write was issued and the store is as before.
C4_RejectedLeavesStore ==
  WalkRejected(inv[1]) => (NoWrite(inv[1]) /\ folders = inv[1].pre)

\* Inbox at root, Archive under Inbox, Inbox proposed under Archive
C4_Witness ==
  /\ WalkRejected(inv[1])
  /\ inv[1].result = DescendantError
  /\ {inv[1].op.parentId.s, inv[1].op.id.s} \subseteq DOMAIN folders
  /\ folders[inv[1].op.id.s].parent_id = <<>>
  /\ folders[inv[1].op.parentId.s].parent_id = inv[1].op.id.s

\* updateFolder(F, parent = P): P exists, its chain reaches a root through
\* existing folders without meeting F
SafeRelocation(fr) ==
  /\ Truthy(fr.op.parentId)
  /\ fr.op.parentId # fr.op.id
  /\ UpdateFolderValidate(fr.op.id, fr.op.title, fr.op.parentId) = NoErr
  /\ fr.op.parentId.s \in DOMAIN fr.pre
  /\ SafeChain(fr.pre, fr.op.parentId.s, fr.op.id.s, Size(fr.pre))

\* C5: a safe relocation whose fetches all succeed is not rejected: exactly one
\* write is issued, a PUT on F whose body carries parent_id = P.
C5_SafeAccepted ==
  (FinishedUpdateFolder(inv[1]) /\ SafeRelocation(inv[1]) /\ AllFetchesOk(inv[1]))
    => /\ Cardinality(Writes(inv[1])) = 1
       /\ \A i \in Writes(inv[1]) :
            /\ inv[1].calls[i].m = "PUT"
            /\ inv[1].calls[i].id = inv[1].op.id.s
            /\ Has(inv[1].calls[i].body, "parent_id")
            /\ inv[1].calls[i].body["parent_id"] = inv[1].op.parentId

\* an unrelated root-level folder C becomes the parent of F
C5_Witness ==
  /\ FinishedUpdateFolder(inv[1]) /\ SafeRelocation(inv[1])
  /\ inv[1].result.text = "Successfully updated folder"
  /\ inv[1].pre[inv[1].op.parentId.s].parent_id = <<>>
  /\ inv[1].op.id.s \in DOMAIN inv[1].pre
  /\ folders[inv[1].op.id.s].parent_id = inv[1].op.parentId.s
  /\ inv[1].pre[inv[1].op.id.s].parent_id # inv[1].op.parentId.s

C8_MissingHopNamed ==
  FinishedUpdateFolder(inv[1])
    => \A i \in WalkFetches(inv[1]) :
         inv[1].answers[i] = "404"
           => /\ inv[1].result = Res("Parent folder not found", inv[1].calls[i].id)
              /\ NoWrite(inv[1])

\* the missing folder is an ancestor of the proposed parent, not the parent
C8_Witness ==
  /\ FinishedUpdateFolder(inv[1])
  /\ \E i \in WalkFetches(inv[1]) :
       /\ inv[1].answers[i] = "404"
       /\ inv[1].calls[i].id # inv[1].op.parentId.s
       /\ inv[1].calls[i].id # inv[1].op.id.s
       /\ inv[1].result.id = inv[1].calls[i].id

\* ======================================================================
\* Two updateFolder invocations interleaved at their awaits (SpecRace)
\* ======================================================================
\* every acyclic forest over the whole identifier pool
InitRace ==
  /\ folders \in {f \in FolderStores : DOMAIN f = FolderIds /\ Acyclic(f)}
  /\ notes = <<>>
  /\ usedIds = IdsIn(folders)
  /\ inv = [p \in Procs |-> IdleFrame]
  /\ listing = ListingOf(folders)
  /\ collation = "icu"

NextRace ==
  \E p \in Procs :
    \/ \E f \in FolderArgs, q \in FolderArgs : UpdateFolderCall(p, f, Undef, q)
    \/ UpdateFolderWalkStep(p, "ok")
    \/ UpdateFolderPut(p, "ok")
    \/ UpdateFolderParentInfo(p, "ok")

SpecRace == InitRace /\ [][NextRace]_vars

\* the walk of p reported safe and its relocation was written
Relocated(fr) ==
  \E i \in Writes(fr) \cap AnsweredCalls(fr) :
    /\ fr.calls[i].m = "PUT"
    /\ Has(fr.calls[i].body, "parent_id")
    /\ fr.answers[i] = "ok"

\* C6: the walk and the write are not atomic. A cycle does appear in a store
\* that was acyclic (C6_Witness), and it appears only when both interleaved
\* invocations were let through by their walks and have written: one
\* invocation alone never closes a cycle.
C6_CycleNeedsTwoWriters ==
  ~Acyclic(folders) => \A p \in Procs : Relocated(inv[p])

\* A moved under B and B moved under A, both accepted: the store holds a cycle
C6_Witness ==
  /\ ~Acyclic(folders)
  /\ \A p \in Procs :
       /\ inv[p].pc = "done"
       /\ inv[p].result.text = "Successfully updated folder"
       /\ inv[p].pre[inv[p].op.id.s].parent_id = <<>>
       /\ inv[p].pre[inv[p].op.parentId.s].parent_id = <<>>

\* ======================================================================
\* One invocation of any mutation entry point, any argument shape (SpecGate)
\* ======================================================================
LongTitle == [i \in 1..(MaxTitleLen + 1) |-> "x"]
ShortId == <<"a", "b", "c">>
NonHexId == [i \in 1..IdLen |-> "g"]
GateFolder == MkId(IdChars[1])
GateSubFolder == MkId(IdChars[2])
GateNote == MkId(NoteIdChars[1])
AbsentId == MkId("9")

FolderIdArgs == {Undef, Str(<<>>), Num(7), Str(ShortId), Str(NonHexId),
                 Str(GateFolder), Str(GateSubFolder), Str(AbsentId)}
NoteIdArgs == {Undef, Str(ShortId), Str(NonHexId), Str(GateNote), Str(AbsentId)}
OptionalIdArgs == {Undef, Str(<<>>), Str(ShortId), Str(GateFolder)}
GateTitleArgs == {Undef, Null, Str(<<>>), Str(DefaultTitle), Str(<<" ">>),
                  Str(<<" ", "T", " ">>), Str(LongTitle), Num(7)}
NoteTitleArgs == {Undef, Str(<<>>), Str(DefaultTitle), Str(<<" ">>),
                  Str(LongTitle), Num(7)}
BodyArgs == {Undef, Str(<<>>), Str(<<"b">>), Num(7)}
FlagArgs == {Undef, Bool(TRUE), Bool(FALSE), Num(1)}
TimeArgs == {Undef, Null, Num(0), Num(5), Num(-1), Str(<<"5">>)}
NonExistentId ==
  <<"n", "o", "n", "-", "e", "x", "i", "s", "t", "e", "n", "t", "-", "i", "d">>
ReadIdArgs ==
  FolderIdArgs \cup NoteIdArgs \cup {Bool(TRUE), Str(LongTitle), Str(NonExistentId)}
GetFolderArgs == OptionalIdArgs \cup {Str(AbsentId), Num(7)}
PageArgs == {Undef, Null, Num(1), Num(2), Num(0), Str(<<"1">>)}
LimitArgs == {Undef, Num(50), Num(100), Num(101)}
OrderByArgs == {Undef, Str(<<"t", "i", "t", "l", "e">>), Str(<<"x">>), Num(1)}
OrderDirArgs == {Undef, Str(<<"a", "s", "c">>), Str(<<"D", "E", "S", "C">>),
                 Str(<<"u", "p">>), Num(1)}

InitGate ==
  /\ folders = (GateFolder :> FolderRec(DefaultTitle, <<>>))
               @@ (GateSubFolder :> FolderRec(DefaultTitle, GateFolder))
  /\ notes = (GateNote :> NoteRec(DefaultTitle, <<"b">>, GateFolder, 0, 0, 0))
  /\ usedIds = {GateFolder, GateSubFolder, GateNote}
  /\ inv = [p \in Procs |-> IdleFrame]
  /\ listing = ListingOf(folders)
  /\ collation = "icu"

\* the handlers are not re-entered: an entry point runs on the idle frame
Idle(p) == inv[p].pc = "idle"

NextGate ==
  \/ /\ Idle(1)
     /\ \E t \in NoteTitleArgs, b \in BodyArgs, q \in OptionalIdArgs,
           k \in FlagArgs, d \in TimeArgs : CreateNoteCall(1, t, b, q, k, d)
  \/ \E o \in WriteOutcomes : CreateNotePost(1, o)
  \/ /\ Idle(1)
     /\ \E n \in NoteIdArgs, t \in NoteTitleArgs, b \in BodyArgs,
           q \in OptionalIdArgs, k \in FlagArgs, c \in FlagArgs, d \in TimeArgs :
          UpdateNoteCall(1, n, t, b, q, k, c, d)
  \/ \E o \in WriteOutcomes : UpdateNotePut(1, o)
  \/ \E n \in NoteIdArgs : DeleteNoteCall(1, n)
  \/ \E o \in ReadOutcomes : DeleteNoteDetails(1, o)
  \/ \E o \in ReadOutcomes : DeleteNoteParentInfo(1, o)
  \/ \E o \in ReadOutcomes : DeleteNoteDelete(1, o)
  \/ /\ Idle(1)
     /\ \E t \in GateTitleArgs, q \in FolderIdArgs : CreateFolderCall(1, t, q)
  \/ \E o \in WriteOutcomes : CreateFolderPost(1, o)
  \/ \E o \in ReadOutcomes : CreateFolderParentInfo(1, o)
  \/ /\ Idle(1)
     /\ \E f \in FolderIdArgs, t \in GateTitleArgs, q \in FolderIdArgs :
          UpdateFolderCall(1, f, t, q)
  \/ \E o \in ReadOutcomes : UpdateFolderWalkStep(1, o)
  \/ \E o \in WriteOutcomes : UpdateFolderPut(1, o)
  \/ \E o \in ReadOutcomes : UpdateFolderParentInfo(1, o)
  \/ \E f \in FolderIdArgs : DeleteFolderCall(1, f)
  \/ \E o \in ReadOutcomes : DeleteFolderDetails(1, o)
  \/ \E o \in ReadOutcomes : DeleteFolderParentInfo(1, o)
  \/ \E o \in ReadOutcomes : DeleteFolderList(1, o)
  \/ \E o \in ReadOutcomes : DeleteFolderNotes(1, o)
  \/ \E o \in ReadOutcomes, c \in BOOLEAN : DeleteFolderDelete(1, o, c)
  \/ ListNotebooksCall(1)
  \/ \E o \in ReadOutcomes : ListNotebooksFetched(1, o)
  \/ \E f \in ReadIdArgs : ReadNotebookCall(1, f)
  \/ \E o \in GetOutcomes : ReadNotebookDetails(1, o)
  \/ \E o \in GetOutcomes : ReadNotebookNotes(1, o)
  \/ \E n \in ReadIdArgs : ReadNoteCall(1, n)
  \/ \E o \in GetOutcomes : ReadNoteDetails(1, o)
  \/ \E o \in GetOutcomes : ReadNoteParentInfo(1, o)
  \/ /\ Idle(1)
     /\ \E f \in GetFolderArgs, g \in PageArgs, l \in LimitArgs,
           b \in OrderByArgs, d \in OrderDirArgs :
          GetAllNotesCall(1, f, g, l, b, d)
  \/ \E o \in GetOutcomes \cup {"404"} : GetAllNotesFetched(1, o)
  \/ \E o \in GetOutcomes : GetAllNotesFolder(1, o)

SpecGate == InitGate /\ [][NextGate]_vars

\* the text of a result that reports success
SuccessTexts ==
  {"Successfully created note", "Successfully updated note",
   "Successfully moved note to trash", "Successfully created folder",
   "Successfully updated folder", "Successfully moved folder to trash"}

IsErrorResult(r) == r.text \notin SuccessTexts \cup {"none"}

IsHex32(v) == v.t = "string" /\ Len(v.s) = IdLen /\ \A i \in 1..Len(v.s) : v.s[i] \in HexChars

\* a supplied value that fails the structural rule of its field; for the
\* optional fields of an update the empty string counts as not supplied
BadRequiredId(v) == ~IsHex32(v)
BadOptionalId(v) == GivenNonEmpty(v) /\ ~IsHex32(v)
BadRequiredTitle(v) ==
  v.t # "string" \/ Trim(v.s) = <<>> \/ Len(v.s) > MaxTitleLen
BadOptionalTitle(v) == GivenNonEmpty(v) /\ BadRequiredTitle(v)
BadBody(v) == Given(v) /\ v.t # "string"
BadFlag(v) == Given(v) /\ v.t # "boolean"
BadTime(v) == Given(v) /\ (v.t # "number" \/ v.n < 0)

StructurallyInvalid(o) ==
  \/ o.name = "createNote"
     /\ (BadRequiredTitle(o.title) \/ BadOptionalId(o.parentId) \/ BadBody(o.body)
         \/ BadFlag(o.isTodo) \/ BadTime(o.todoDue))
  \/ o.name = "updateNote"
     /\ (BadRequiredId(o.id) \/ BadOptionalTitle(o.title)
         \/ BadOptionalId(o.parentId) \/ BadBody(o.body) \/ BadFlag(o.isTodo)
         \/ BadFlag(o.todoCompleted) \/ BadTime(o.todoDue))
  \/ o.name = "deleteNote" /\ BadRequiredId(o.id)
  \/ o.name = "createFolder"
     /\ (BadRequiredTitle(o.title) \/ BadOptionalId(o.parentId))
  \/ o.name = "updateFolder"
     /\ (BadRequiredId(o.id) \/ BadOptionalTitle(o.title)
         \/ BadOptionalId(o.parentId))
  \/ o.name = "deleteFolder" /\ BadRequiredId(o.id)

\* C9: in every mutation entry point an argument that fails structural
\* validation (identifier not 32 hex characters, title empty or longer than
\* 255, body not a string, non-boolean flag, negative or non-numeric timestamp)
\* ends the invocation with an error result and without any backend call.
C9_InvalidRejectedBeforeCall ==
  StructurallyInvalid(inv[1].op)
    => /\ inv[1].calls = <<>>
       /\ inv[1].pc = "done" => IsErrorResult(inv[1].result)

\* C10: updateNote and updateFolder called with a valid identifier and every
\* optional field omitted end with the at-least-one-property error and have
\* issued no backend call.
C10_EmptyUpdateRejected ==
  LET o == inv[1].op IN
  (/\ inv[1].pc = "done"
   /\ o.name \in {"updateNote", "updateFolder"}
   /\ IsHex32(o.id)
   /\ \A v \in {o.title, o.body, o.parentId, o.isTodo, o.todoCompleted,
                o.todoDue} : v = Undef)
    => /\ inv[1].result =
            Res("At least one property must be provided for update", <<>>)
       /\ inv[1].calls = <<>>

\* updateNote has been called that way on a note that exists
C10_Witness ==
  /\ inv[1].pc = "done"
  /\ inv[1].op.name = "updateNote"
  /\ inv[1].op.id = Str(GateNote)
  /\ \A v \in {inv[1].op.title, inv[1].op.body, inv[1].op.parentId,
               inv[1].op.isTodo, inv[1].op.todoCompleted, inv[1].op.todoDue} :
       v = Undef
  /\ inv[1].result.text = "At least one property must be provided for update"

\* ======================================================================
\* Partial updates and the single write (Spec, SpecGate)
\* ======================================================================
\* updateFolder was called with a title and without a parent
TitleOnly(fr) ==
  /\ fr.op.name = "updateFolder"
  /\ GivenNonEmpty(fr.op.title)
  /\ ~GivenNonEmpty(fr.op.parentId)

SameParents(f, g) ==
  /\ DOMAIN f = DOMAIN g
  /\ \A id \in DOMAIN f : f[id].parent_id = g[id].parent_id

\* C11: updateFolder with only a title runs no ancestry walk (its first backend
\* call, if any, is the PUT), its write carries no parent_id field, and every
\* folder's stored parent reference is what it was when the call began.
C11_TitleOnlyKeepsParent ==
  TitleOnly(inv[1])
    => /\ inv[1].calls # <<>> => inv[1].calls[1].m = "PUT"
       /\ \A i \in Writes(inv[1]) : ~Has(inv[1].calls[i].body, "parent_id")
       /\ SameParents(folders, inv[1].pre)

\* the title of a folder that lies under another folder has been written
C11_Witness ==
  /\ FinishedUpdateFolder(inv[1]) /\ TitleOnly(inv[1])
  /\ inv[1].result.text = "Successfully updated folder"
  /\ inv[1].answers[1] = "ok"
  /\ folders[inv[1].op.id.s].parent_id \in DOMAIN folders

\* the argument a field of a request body is taken from
ArgOf(o, k) ==
  CASE k = "title" -> o.title
    [] k = "body" -> o.body
    [] k = "parent_id" -> o.parentId
    [] k = "is_todo" -> o.isTodo
    [] k = "todo_completed" -> o.todoCompleted
    [] k = "todo_due" -> o.todoDue

Supplied(v) == v.t \notin {"undefined", "null"}

\* the arguments pass the validation the entry point runs before its first call
Validated(o) ==
  CASE o.name = "createNote" ->
         CreateNoteValidate(o.title, o.body, o.parentId, o.isTodo, o.todoDue) = NoErr
    [] o.name = "updateNote" ->
         UpdateNoteValidate(o.id, o.title, o.body, o.parentId, o.isTodo,
                            o.todoCompleted, o.todoDue) = NoErr
    [] o.name = "deleteNote" -> validateNoteId(o.id) = NoErr
    [] o.name = "createFolder" -> CreateFolderValidate(o.title, o.parentId) = NoErr
    [] o.name = "updateFolder" ->
         UpdateFolderValidate(o.id, o.title, o.parentId) = NoErr
    [] o.name = "deleteFolder" -> validateFolderId(o.id) = NoErr
    [] OTHER -> FALSE

\* C12: an invocation of a mutation entry point issues at most one write, and
\* exactly one once it has finished with arguments that pass validation and a
\* relocation the walk did not reject; a field is in the body of a POST or PUT
\* only if the caller supplied it; every call that is not the write is a GET.
C12_SingleWrite ==
  LET fr == inv[1] IN
  /\ Cardinality(Writes(fr)) <= 1
  /\ (fr.pc = "done" /\ Validated(fr.op) /\ ~WalkRejected(fr))
       => Cardinality(Writes(fr)) = 1
  /\ \A i \in 1..Len(fr.calls) :
       /\ i \notin Writes(fr) => fr.calls[i].m = "GET"
       /\ fr.calls[i].m \in {"POST", "PUT"}
            => \A k \in DOMAIN fr.calls[i].body : Supplied(ArgOf(fr.op, k))

\* updateNote with only a body supplied has written that one field
C12_Witness ==
  /\ inv[1].pc = "done"
  /\ inv[1].op.name = "updateNote"
  /\ inv[1].result.text = "Successfully updated note"
  /\ Len(inv[1].calls) = 1
  /\ DOMAIN inv[1].calls[1].body = {"body"}

\* ======================================================================
\* Tolerated reads (SpecGate)
\* ======================================================================
\* the answered reads of the invocation that failed
FailedReads(fr) ==
  {i \in AnsweredCalls(fr) : fr.calls[i].m = "GET" /\ fr.answers[i] # "ok"}

LastAnswer(fr) == fr.answers[Len(fr.answers)]

\* C13: a finished deleteNote or deleteFolder with a valid identifier has issued
\* its DELETE exactly once, as its last call, whatever its reads answered, and
\* reports success when the DELETE succeeded; a finished createFolder or
\* updateFolder whose last call is the parent lookup made after an accepted
\* write reports success whatever that lookup answered.
C13_ReadsTolerated ==
  LET fr == inv[1] IN
  /\ (fr.pc = "done" /\ fr.op.name \in {"deleteNote", "deleteFolder"}
      /\ Validated(fr.op))
       => /\ Writes(fr) = {Len(fr.calls)}
          /\ LastCall(fr).m = "DELETE"
          /\ LastAnswer(fr) = "ok" =>
               fr.result.text \in {"Successfully moved note to trash",
                                   "Successfully moved folder to trash"}
  /\ (fr.pc = "done" /\ fr.op.name \in {"createFolder", "updateFolder"}
      /\ Writes(fr) # {} /\ LastCall(fr).m = "GET")
       => fr.result.text \in {"Successfully created folder",
                              "Successfully updated folder"}

\* deleteFolder succeeded although the read of the folder collection failed
C13_Witness ==
  /\ inv[1].pc = "done"
  /\ inv[1].op.name = "deleteFolder"
  /\ inv[1].result.text = "Successfully moved folder to trash"
  /\ \E i \in FailedReads(inv[1]) : inv[1].calls[i].path = "folders*"

\* the parent lookup of createFolder failed and the result is a success
C13_Lookup_Witness ==
  /\ inv[1].pc = "done"
  /\ inv[1].op.name = "createFolder"
  /\ inv[1].result.text = "Successfully created folder"
  /\ FailedReads(inv[1]) # {}

\* ======================================================================
\* The notebook tree listing on any flat folder collection (SpecTree)
\* ======================================================================
TreeTitles == <<<<"Z">>, <<"[", "1", "]", " ", "B">>, <<"[", "0", "]", " ", "A">>,
                <<"A">>, <<"T">>, <<"B">>>>

\* the records a collection is made of: any identifier of the pool under any
\* parent reference, root included; the title goes with the identifier
TreeRecords ==
  {ItemRec(MkId(IdChars[i]), TreeTitles[i], q) :
     i \in 1..MaxFolders, q \in FolderIds \cup {<<>>}}

\* every flat collection of at most MaxList records: cycles, dangling parent
\* references and repeated identifiers included
TreeListings == UNION {[1..n -> TreeRecords] : n \in 0..MaxList}

InitTree ==
  /\ listing \in TreeListings
  /\ collation = "icu"
  /\ folders = <<>>
  /\ notes = <<>>
  /\ usedIds = {}
  /\ inv = [p \in Procs |-> IdleFrame]

NextTree ==
  \/ ListNotebooksCall(1)
  \/ \E o \in ReadOutcomes : ListNotebooksFetched(1, o)

SpecTree == InitTree /\ [][NextTree]_vars

\* the listing has finished on a collection it fetched
Listed(fr) ==
  /\ fr.pc = "done"
  /\ fr.op.name = "listNotebooks"
  /\ fr.answers = <<"ok">>

DistinctIds(items) ==
  \A i, j \in 1..Len(items) : items[i].id = items[j].id => i = j

\* the record of the collection that carries the identifier, if any
Holders(items, id) == {i \in 1..Len(items) : items[i].id = id}

RECURSIVE ChainEnds(_, _, _)
\* following parent references from id ends, at the root or at an identifier
\* no record carries, within k hops
ChainEnds(items, id, k) ==
  IF id = <<>> \/ Holders(items, id) = {} THEN TRUE
  ELSE IF k = 0 THEN FALSE
  ELSE \A i \in Holders(items, id) : ChainEnds(items, items[i].parent_id, k - 1)

NoCycles(items) ==
  \A i \in 1..Len(items) : ChainEnds(items, items[i].id, Len(items))

RECURSIVE ChainReachesRoot(_, _, _)
\* the chain from id ends at the root and nowhere else
ChainReachesRoot(items, id, k) ==
  IF id = <<>> THEN TRUE
  ELSE IF Holders(items, id) = {} \/ k = 0 THEN FALSE
  ELSE \A i \in Holders(items, id) :
         ChainReachesRoot(items, items[i].parent_id, k - 1)

LinesFor(fr, id) == {j \in 1..Len(fr.lines) : fr.lines[j].id = id}

\* the sibling groups of the mapping that hold the i-th record
GroupsHolding(items, i) ==
  LET byParent == notebooksByParentId(items) IN
  {k \in DOMAIN byParent :
     \E j \in 1..Len(byParent[k]) : byParent[k][j] = items[i]}

EntryPoints ==
  {"listNotebooks", "readNotebook", "readNote", "getAllNotes",
   "createNote", "updateNote", "deleteNote",
   "createFolder", "updateFolder", "deleteFolder"}

\* C14: no invocation of an entry point, whatever its arguments and whatever
\* the backend answers, ends with an exception leaving call(); an invocation
\* that has ended has returned a text.
C14_NoExceptionEscapes ==
  \A p \in Procs :
    /\ inv[p].pc # "escaped"
    /\ inv[p].pc = "done" => inv[p].result # NoRes

\* what does hold: an exception leaves call() only from readNotebook or readNote
\* given a truthy argument that is not a string
C14_EscapesOnlyNonStringId ==
  \A p \in Procs :
    /\ inv[p].pc = "escaped"
         => /\ inv[p].op.name \in {"readNotebook", "readNote"}
            /\ inv[p].op.id.t \in {"number", "boolean"}
            /\ inv[p].calls = <<>>
    /\ inv[p].pc = "done" => inv[p].result # NoRes
    /\ inv[p].pc # "idle" => inv[p].op.name \in EntryPoints

\* C15: for a flat folder collection without cycles (distinct identifiers),
\* dangling parent references and collections without a root-level folder
\* included, every folder is in exactly one sibling group and the listing
\* emits exactly one line for every folder.
C15_EveryFolderOnce ==
  (Listed(inv[1]) /\ DistinctIds(inv[1].notebooks) /\ NoCycles(inv[1].notebooks))
    => \A i \in 1..Len(inv[1].notebooks) :
         /\ Cardinality(GroupsHolding(inv[1].notebooks, i)) = 1
         /\ Cardinality(LinesFor(inv[1], inv[1].notebooks[i].id)) = 1

\* what the listing does give: when every folder's chain of parents reaches
\* the root through records of the collection, each folder has its one line
C15_RootedFoldersOnce ==
  (Listed(inv[1]) /\ DistinctIds(inv[1].notebooks)
   /\ inv[1].notebooks # <<>>
   /\ \A i \in 1..Len(inv[1].notebooks) :
        ChainReachesRoot(inv[1].notebooks, inv[1].notebooks[i].id,
                         Len(inv[1].notebooks)))
    => /\ inv[1].result.text = "Joplin Notebooks"
       /\ \A i \in 1..Len(inv[1].notebooks) :
            /\ Cardinality(GroupsHolding(inv[1].notebooks, i)) = 1
            /\ Cardinality(LinesFor(inv[1], inv[1].notebooks[i].id)) = 1

\* the rendering was entered (the mapping has a root group) and did not end
\* with its lines: the recursion of notebooksLines had no end
RenderingOverflowed(fr) ==
  /\ <<>> \in DOMAIN notebooksByParentId(fr.notebooks)
  /\ fr.result.text = "Error listing notebooks"

\* C16: on any flat folder collection (parent cycles, dangling parent
\* references, an identifier carried by more than one record) notebooksLines
\* comes to an end and the listing has at most one line per folder identifier.
C16_NoFolderTwice ==
  Listed(inv[1])
    => /\ ~RenderingOverflowed(inv[1])
       /\ \A i \in 1..Len(inv[1].notebooks) :
            Cardinality(LinesFor(inv[1], inv[1].notebooks[i].id)) <= 1

\* what the listing does give: the same on every collection whose records
\* carry distinct identifiers, cycles and dangling references included
C16_DistinctIdsOnce ==
  (Listed(inv[1]) /\ DistinctIds(inv[1].notebooks))
    => /\ ~RenderingOverflowed(inv[1])
       /\ \A i \in 1..Len(inv[1].notebooks) :
            Cardinality(LinesFor(inv[1], inv[1].notebooks[i].id)) <= 1

\* ======================================================================
\* The order of one sibling group (SpecSort)
\* ======================================================================
SortTitles ==
  {<<"[", "0", "]", " ", "A">>, <<"Z">>, <<"[", "1", "]", " ", "B">>, <<"A">>,
   <<"[", "[">>, <<"[", "]">>, <<"[", "A">>}

\* every group of at most MaxSiblings root-level folders, in any order
SortListings ==
  UNION {{[i \in 1..n |-> ItemRec(MkId(IdChars[i]), t[i], <<>>)] :
            t \in [1..n -> SortTitles]} : n \in 0..MaxSiblings}

InitSort ==
  /\ listing \in SortListings
  /\ collation \in {"icu", "codeunit"}
  /\ folders = <<>>
  /\ notes = <<>>
  /\ usedIds = {}
  /\ inv = [p \in Procs |-> IdleFrame]

NextSort ==
  \/ ListNotebooksCall(1)
  \/ \E o \in ReadOutcomes : ListNotebooksFetched(1, o)

SpecSort == InitSort /\ [][NextSort]_vars

RECURSIVE ReplaceEveryBracket(_)
\* the title with each '[' taken for the character before 'A'
ReplaceEveryBracket(s) ==
  IF s = <<>> THEN s
  ELSE <<IF Head(s) = "[" THEN "@" ELSE Head(s)>> \o ReplaceEveryBracket(Tail(s))

Letters == {"A", "B", "T", "Z"}

TitlesOf(lines) == [i \in 1..Len(lines) |-> lines[i].title]

\* the listing has rendered a non-empty group of root-level folders
Sorted(fr) == Listed(fr) /\ fr.result.text = "Joplin Notebooks"

\* every bracket-prefixed title precedes every title starting with a letter
BracketsFirst(lines) ==
  \A i, j \in 1..Len(lines) :
    (lines[i].title # <<>> /\ Head(lines[i].title) = "["
     /\ lines[j].title # <<>> /\ Head(lines[j].title) \in Letters) => i < j

\* the group "[0] A", "Z", "[1] B" comes out as "[0] A", "[1] B", "Z"
ExampleOrder(fr) ==
  TitlesOf(fr.notebooks) = <<<<"[", "0", "]", " ", "A">>, <<"Z">>,
                             <<"[", "1", "]", " ", "B">>>>
    => TitlesOf(fr.lines) = <<<<"[", "0", "]", " ", "A">>,
                              <<"[", "1", "]", " ", "B">>, <<"Z">>>>

\* C17: sortNotebooks orders a sibling group as if each '[' of a title were the
\* character before 'A' and otherwise by string comparison; the example group
\* comes out as "[0] A", "[1] B", "Z"; bracket-prefixed titles precede titles
\* starting with a letter; the fetched list keeps its order.
C17_SortedAsIfBracketBeforeA ==
  Sorted(inv[1])
    => /\ \A i \in 1..(Len(inv[1].lines) - 1) :
            localeCompare(ReplaceEveryBracket(inv[1].lines[i].title),
                          ReplaceEveryBracket(inv[1].lines[i + 1].title),
                          collation) <= 0
       /\ ExampleOrder(inv[1])
       /\ BracketsFirst(inv[1].lines)
       /\ inv[1].notebooks = listing

\* what sortNotebooks does give: the order by the title with its first '['
\* taken for the character before 'A', records of equal rank in fetched order
C17_SortedByFirstBracket ==
  Sorted(inv[1])
    => /\ \A i \in 1..(Len(inv[1].lines) - 1) :
            localeCompare(ReplaceBracket(inv[1].lines[i].title),
                          ReplaceBracket(inv[1].lines[i + 1].title),
                          collation) <= 0
       /\ ExampleOrder(inv[1])
       /\ BracketsFirst(inv[1].lines)
       /\ inv[1].notebooks = listing
       /\ \A i \in 1..Len(inv[1].notebooks) :
            Cardinality(LinesFor(inv[1], inv[1].notebooks[i].id)) = 1

\* ======================================================================
\* The listing run twice on one backend state (SpecTwice)
\* ======================================================================
TwiceRecords ==
  {ItemRec(MkId(i), t, q) :
     i \in {"a", "b"},
     t \in {<<"[", "1", "]", " ", "B">>, <<"A">>},
     q \in {<<>>, MkId("a")}}

TwiceListings == UNION {[1..n -> TwiceRecords] : n \in 0..MaxTwice}

InitTwice ==
  /\ listing \in TwiceListings
  /\ collation \in {"icu", "codeunit"}
  /\ folders = <<>>
  /\ notes = <<>>
  /\ usedIds = {}
  /\ inv = [p \in Procs |-> IdleFrame]

\* the two runs, one after the other or overlapping; the backend never changes
NextTwice ==
  \E p \in Procs :
    \/ ListNotebooksCall(p)
    \/ \E o \in ReadOutcomes : ListNotebooksFetched(p, o)

SpecTwice == InitTwice /\ [][NextTwice]_vars

PagedStores ==
  [FolderIds -> {FolderRec(DefaultTitle, q) : q \in {<<>>, MkId(IdChars[1])}}]

PagedTargets == {Str(MkId(IdChars[1])), Str(MkId(IdChars[MaxFolders]))}

InitPages ==
  /\ folders \in PagedStores
  /\ notes = (GateNote :> NoteRec(DefaultTitle, <<"b">>, MkId(IdChars[1]), 0, 0, 0))
  /\ usedIds = FolderIds \cup {GateNote}
  /\ inv = [p \in Procs |-> IdleFrame]
  /\ listing = ListingOf(folders)
  /\ collation = "icu"

NextPages ==
  \/ ListNotebooksCall(1)
  \/ \E o \in ReadOutcomes : GetAllItemsPage(1, o)
  \/ \E f \in PagedTargets : DeleteFolderCall(1, f)
  \/ \E o \in ReadOutcomes : DeleteFolderDetails(1, o)
  \/ \E o \in ReadOutcomes : DeleteFolderParentInfo(1, o)
  \/ \E o \in ReadOutcomes : DeleteFolderNotes(1, o)
  \/ \E o \in ReadOutcomes, c \in BOOLEAN : DeleteFolderDelete(1, o, c)
  \/ \E f \in PagedTargets : GetFolderCall(1, f)
  \/ \E o \in GetOutcomes : GetFolderDetails(1, o)
  \/ \E o \in ReadOutcomes : GetFolderParentInfo(1, o)
  \/ \E o \in ReadOutcomes : GetFolderNotes(1, o)

SpecPages == InitPages /\ [][NextPages]_vars

\* the answers of the page requests an invocation has made
PageAnswers(fr) ==
  SelectSeq([i \in AnsweredCalls(fr) |->
               IF fr.calls[i].path = "folders*" THEN fr.answers[i] ELSE "other"],
            LAMBDA a : a # "other")

PageFailed(fr) == \E i \in 1..Len(PageAnswers(fr)) : PageAnswers(fr)[i] # "ok"

\* the sub-folders of the folder an invocation is about, in the whole collection
\* as it was when the invocation began
SubfoldersThen(fr) ==
  SelectSeq(ListingOf(fr.pre), LAMBDA f : f.parent_id = fr.op.id.s)

\* C19: an invocation one of whose page requests for the folder collection
\* failed holds no folder record and no line computed from the pages that did
\* arrive; the notebook listing has then ended with the error result and no
\* notebook line; the records a listing renders and the sub-folders a deletion
\* or a folder view reports are those of the whole collection or none.
C19_NoPartialCollection ==
  \A p \in Procs :
    /\ PageFailed(inv[p])
         => /\ inv[p].notebooks = <<>>
            /\ inv[p].lines = <<>>
            /\ inv[p].op.name = "listNotebooks"
                 => /\ inv[p].pc = "done"
                    /\ inv[p].result = Res("Error listing notebooks", <<>>)
    /\ (inv[p].op.name = "listNotebooks" /\ inv[p].pc = "done"
        /\ ~PageFailed(inv[p]))
         => inv[p].notebooks = ListingOf(inv[p].pre)
    /\ inv[p].op.name \in {"deleteFolder", "getFolder"}
         => inv[p].lines \in {<<>>, SubfoldersThen(inv[p])}

\* a listing whose second page request failed after the first page arrived
C19_Witness ==
  /\ inv[1].op.name = "listNotebooks"
  /\ inv[1].pc = "done"
  /\ PageFailed(inv[1])
  /\ Len(inv[1].queue) = PageSize
  /\ Len(listing) > PageSize

\* a deletion whose fetch failed on the second page although the first page
\* held a sub-folder of the folder
C19_Delete_Witness ==
  /\ inv[1].op.name = "deleteFolder"
  /\ inv[1].pc = "done"
  /\ PageFailed(inv[1])
  /\ \E i \in 1..Len(inv[1].queue) : inv[1].queue[i].parent_id = inv[1].op.id.s
  /\ inv[1].result.text = "Successfully moved folder to trash"

\* ======================================================================
\* The fetcher on collections of up to three pages (SpecFetch)
\* ======================================================================
FetchIdChars == <<"a", "b", "c", "d", "e", "f", "0", "1", "2">>

\* every root-level collection of at most two full pages and one item, the
\* records told apart by their identifiers, the titles in any order
FetchListings ==
  UNION {{[i \in 1..n |-> ItemRec(MkId(FetchIdChars[i]), t[i], <<>>)] :
            t \in [1..n -> {<<"A">>, <<"Z">>}]} : n \in 0..(2 * PageSize + 1)}

InitFetch ==
  /\ listing \in FetchListings
  /\ collation = "icu"
  /\ folders = <<>>
  /\ notes = <<>>
  /\ usedIds = {}
  /\ inv = [p \in Procs |-> IdleFrame]

NextFetch ==
  \/ ListNotebooksCall(1)
  \/ \E o \in ReadOutcomes : GetAllItemsPage(1, o)

SpecFetch == InitFetch /\ [][NextFetch]_vars

\* the page requests a collection of n items takes
PagesOf(n) == IF n = 0 THEN 1 ELSE (n + PageSize - 1) \div PageSize

\* C20: getAllItems returns the items of all the pages, up to and including the
\* first page with no continuation, as one sequence in backend order: while it
\* runs the items gathered are the first pages of the collection; when it ends
\* without a failure the caller holds the whole collection in its order (two
\* full pages and a shorter third give 2 * PageSize + 1 items after three
\* requests), each element a record with the projected fields.
C20_PagesConcatenated ==
  LET fr == inv[1] IN
  /\ fr.pc = "ln_all"
       => /\ Len(fr.queue) = PageSize * Len(PageAnswers(fr))
          /\ fr.queue = SubSeq(listing, 1, Len(fr.queue))
  /\ (fr.pc = "done" /\ ~PageFailed(fr))
       => /\ fr.notebooks = listing
          /\ Len(PageAnswers(fr)) = PagesOf(Len(listing))
          /\ \A i \in 1..Len(fr.notebooks) :
               DOMAIN fr.notebooks[i] = ProjectedFields(fr.op.name)
          /\ Len(listing) = 2 * PageSize + 1
               => /\ Len(PageAnswers(fr)) = 3
                  /\ Len(fr.notebooks) = 2 * PageSize + 1

\* three pages, two full and one shorter, fetched; the backend order is not
\* the order of the titles
C20_Witness ==
  /\ inv[1].pc = "done"
  /\ PageAnswers(inv[1]) = <<"ok", "ok", "ok">>
  /\ Len(inv[1].notebooks) = 2 * PageSize + 1
  /\ inv[1].notebooks[1].title = <<"Z">>
  /\ inv[1].notebooks[PageSize + 1].title = <<"A">>

\* ======================================================================
\* Claims about the note and folder mutations, continued (SpecGate)
\* ======================================================================
\* a due timestamp supplied together with an explicit is_todo = false
DueWithoutTodo(o) ==
  /\ o.name \in {"createNote", "updateNote"}
  /\ o.isTodo = Bool(FALSE)
  /\ Given(o.todoDue)

NoWriteIssued(fr) == \A i \in 1..Len(fr.calls) : ~IsWrite(fr.calls[i])

\* C21: createNote and updateNote called with a due timestamp and an explicit
\* is_todo = false issue no write call and end with an error result.
C21_DueWithoutTodoRejected ==
  DueWithoutTodo(inv[1].op)
    => /\ NoWriteIssued(inv[1])
       /\ inv[1].pc = "done" => IsErrorResult(inv[1].result)

\* what does hold: createNote rejects the combination
C21_CreateRejectsDueWithoutTodo ==
  (DueWithoutTodo(inv[1].op) /\ inv[1].op.name = "createNote")
    => /\ inv[1].calls = <<>>
       /\ inv[1].pc = "done" => IsErrorResult(inv[1].result)


\* readNotebook called with no notebook ID
NoNotebookId(fr) ==
  /\ fr.op.name = "readNotebook"
  /\ fr.pc # "idle"
  /\ fr.op.id \in {Undef, Str(<<>>)}

\* C22: readNotebook called with an undefined or empty notebook ID returns
\* exactly the message 'Please provide a notebook ID.' and issues no backend
\* call.
C22_NoIdExactMessage ==
  NoNotebookId(inv[1])
    => /\ inv[1].pc = "done"
       /\ inv[1].result.text = "Please provide a notebook ID."
       /\ inv[1].calls = <<>>

\* what does hold: it returns at once, without a backend call, a message that
\* begins with that sentence and goes on with an example
C22_NoIdMessageWithExample ==
  NoNotebookId(inv[1])
    => /\ inv[1].pc = "done"
       /\ inv[1].result.text =
            "Please provide a notebook ID. Example: read_notebook notebook_id=\"your-notebook-id\""
       /\ inv[1].calls = <<>>


\* readNotebook called with a non-empty string the backend holds no folder for
AbsentNotebook(fr) ==
  /\ fr.op.name = "readNotebook"
  /\ fr.op.id.t = "string"
  /\ fr.op.id.s # <<>>
  /\ fr.op.id.s \notin DOMAIN folders

\* the messages of readNotebook that contain 'not found'
NotFoundTexts == {"Notebook with ID \"${notebookId}\" not found."}

NeverFetchesNotes(fr) ==
  \A i \in 1..Len(fr.calls) : fr.calls[i].path # "folders/notes"

\* C23 as stated: readNotebook with any non-empty ID the backend holds no folder
\* for (short IDs and IDs without a hexadecimal character included), the
\* backend answering not-found if asked, returns a result that contains
\* 'not found' and names the ID, and never fetches the notes of that ID.
C23_AbsentIdNotFound ==
  AbsentNotebook(inv[1])
    => /\ NeverFetchesNotes(inv[1])
       /\ (inv[1].pc = "done" /\ inv[1].answers \in {<<>>, <<"404">>})
            => /\ inv[1].result.text \in NotFoundTexts
               /\ inv[1].result.id = inv[1].op.id.s

\* C23: readNotebook with a string ID of at least 10 characters holding a
\* hexadecimal character, for which the backend holds no folder and answers
\* not-found, returns the 'not found' message naming the ID and never fetches
\* the notes; a shorter ID or one without a hexadecimal character gets,
\* without any backend call, the message that it does not appear to be a
\* valid notebook ID, which names the ID.
C23_AbsentIdNotFoundOrInvalid ==
  AbsentNotebook(inv[1])
    => /\ NeverFetchesNotes(inv[1])
       /\ (LooksLikeTitle(inv[1].op.id) = "no" /\ inv[1].pc = "done"
           /\ inv[1].answers = <<"404">>)
            => /\ inv[1].result.text \in NotFoundTexts
               /\ inv[1].result.id = inv[1].op.id.s
       /\ LooksLikeTitle(inv[1].op.id) = "yes"
            => /\ inv[1].pc = "done"
               /\ inv[1].calls = <<>>
               /\ inv[1].result.text =
                    "Error: \"${notebookId}\" does not appear to be a valid notebook ID."
               /\ inv[1].result.id = inv[1].op.id.s

C23_Witness ==
  /\ AbsentNotebook(inv[1])
  /\ inv[1].op.id.s = NonExistentId
  /\ inv[1].pc = "done"
  /\ inv[1].answers = <<"404">>


\* ======================================================================
\* Claims about the ancestry walk, continued (Spec)
\* ======================================================================
\* x lies on the cycle that the chain of parent references from id runs into
OnCycleOf(f, id, x) ==
  /\ x \in DOMAIN f
  /\ OnChain(f, id, x, Size(f))
  /\ OnChain(f, f[x].parent_id, x, Size(f))

\* a finished updateFolder(F, parent = P), P # F, all of whose fetches were
\* answered, on a store where the chain of P runs into a cycle
RelocationIntoCycle(fr) ==
  /\ FinishedUpdateFolder(fr)
  /\ Truthy(fr.op.parentId)
  /\ fr.op.parentId # fr.op.id
  /\ UpdateFolderValidate(fr.op.id, fr.op.title, fr.op.parentId) = NoErr
  /\ ~EndsWithin(fr.pre, fr.op.parentId.s, Size(fr.pre))
  /\ AllFetchesOk(fr)

\* C24 as stated: when the chain of P runs into a cycle that does not contain
\* F the relocation ends with the circular-reference error, when the cycle
\* contains F with the descendant error; no write is issued.
C24_CycleErrorByMembership ==
  RelocationIntoCycle(inv[1])
    => /\ NoWrite(inv[1])
       /\ folders = inv[1].pre
       /\ inv[1].result = IF OnCycleOf(inv[1].pre, inv[1].op.parentId.s,
                                       inv[1].op.id.s)
                          THEN DescendantError ELSE CircularError

\* C24: when the chain of P runs into a cycle, the relocation ends with the
\* descendant error if F lies on the chain of P (on the cycle or before it)
\* and with the circular-reference error otherwise; no write is issued and
\* the store is as it was.
C24_CycleErrorByChain ==
  RelocationIntoCycle(inv[1])
    => /\ NoWrite(inv[1])
       /\ folders = inv[1].pre
       /\ inv[1].result =
            IF OnChain(inv[1].pre, inv[1].op.parentId.s, inv[1].op.id.s,
                       Size(inv[1].pre))
            THEN DescendantError ELSE CircularError

\* the walk went round a cycle of two folders neither of which is F
C24_Witness ==
  /\ RelocationIntoCycle(inv[1])
  /\ inv[1].result = CircularError
  /\ Cardinality(inv[1].visited) >= 2
  /\ inv[1].op.id.s \notin inv[1].visited


\* ======================================================================
\* Reading a notebook whose notes span pages (SpecNotebook)
\* ======================================================================
\* up to PageSize + 1 notes, each in the notebook or in its sub-folder
NotebookNotes ==
  UNION {[{MkId(NoteIdChars[i]) : i \in 1..n} ->
            {NoteRec(DefaultTitle, <<"b">>, q, 0, 0, 0) :
               q \in {GateFolder, GateSubFolder}}] : n \in 0..(PageSize + 1)}

InitNotebook ==
  /\ folders = (GateFolder :> FolderRec(DefaultTitle, <<>>))
               @@ (GateSubFolder :> FolderRec(DefaultTitle, GateFolder))
  /\ notes \in NotebookNotes
  /\ usedIds = {GateFolder, GateSubFolder} \cup DOMAIN notes
  /\ inv = [p \in Procs |-> IdleFrame]
  /\ listing = ListingOf(folders)
  /\ collation = "icu"

NextNotebook ==
  \/ \E f \in ReadIdArgs : ReadNotebookCall(1, f)
  \/ \E o \in GetOutcomes : ReadNotebookDetails(1, o)
  \/ \E o \in GetOutcomes : ReadNotebookNotes(1, o)

SpecNotebook == InitNotebook /\ [][NextNotebook]_vars

\* readNotebook has returned the listing of a notebook
NotebookListed(fr) ==
  /\ fr.op.name = "readNotebook"
  /\ fr.pc = "done"
  /\ fr.result.text =
       "# Notebook: \"${notebook.title}\" (notebook_id: \"${notebook.id}\")"

\* C25: a readNotebook that returns the listing of a notebook lists every note
\* the notebook holds and reports their number, whether the backend delivers
\* them on one page or on more.
C25_ListsEveryNote ==
  NotebookListed(inv[1])
    => /\ {inv[1].lines[i] : i \in 1..Len(inv[1].lines)}
            = {n \in DOMAIN notes : notes[n].parent_id = inv[1].op.id.s}
       /\ Len(inv[1].lines) = Len(NotesIn(inv[1].op.id.s))

\* what does hold: the notes listed and counted are those of the first page
C25_ListsFirstPage ==
  NotebookListed(inv[1])
    => /\ inv[1].lines = PageAfter(NotesIn(inv[1].op.id.s), 0)
       /\ Len(inv[1].calls) = 2
       /\ has_more(NotesIn(inv[1].op.id.s), 0)
            => Len(inv[1].lines) < Len(NotesIn(inv[1].op.id.s))


\* ======================================================================
\* Claims about the update operations, continued (SpecGate)
\* ======================================================================
\* the update call's arguments pass every validator that looks at one field
PerFieldValid(o) ==
  IF o.name = "updateNote"
  THEN FirstErr(<<validateNoteId(o.id), validateOptionalTitle(o.title),
                  validateOptionalId(o.parentId), validateOptionalBody(o.body),
                  validateOptionalBoolean(o.isTodo),
                  validateOptionalBoolean(o.todoCompleted),
                  validateOptionalTimestamp(o.todoDue)>>) = NoErr
  ELSE /\ o.name = "updateFolder"
       /\ FirstErr(<<validateFolderId(o.id), validateOptionalTitle(o.title),
                     validateOptionalId(o.parentId)>>) = NoErr

\* the request body the call's builder makes of the arguments
BuiltBody(o) ==
  IF o.name = "updateNote"
  THEN UpdateNoteBody(o.title, o.body, o.parentId, o.isTodo, o.todoCompleted,
                      o.todoDue)
  ELSE UpdateFolderBody(o.title, o.parentId)

RejectedAsEmpty(fr) ==
  /\ fr.pc = "done"
  /\ fr.calls = <<>>
  /\ fr.result.text = "At least one property must be provided for update"

\* C26: an update call whose arguments pass the per-field validators is
\* rejected as 'At least one property must be provided' exactly when the
\* request body built from the arguments is empty.
C26_EmptyCheckAgreesWithBuilder ==
  (PerFieldValid(inv[1].op) /\ inv[1].pc # "idle")
    => (RejectedAsEmpty(inv[1]) <=> BuiltBody(inv[1].op) = EmptyBody)

\* what does hold: no write carries an empty body, and updateFolder's check
\* agrees with its builder
C26_NoEmptyWrite ==
  /\ \A i \in 1..Len(inv[1].calls) :
       (inv[1].op.name \in {"updateNote", "updateFolder"}
          /\ IsWrite(inv[1].calls[i]))
         => inv[1].calls[i].body # EmptyBody
  /\ (PerFieldValid(inv[1].op) /\ inv[1].op.name = "updateFolder"
        /\ inv[1].pc # "idle")
       => (RejectedAsEmpty(inv[1]) <=> BuiltBody(inv[1].op) = EmptyBody)


\* ======================================================================
\* Claims about the parent reference (Spec)
\* ======================================================================
\* updateFolder was called without a parent: undefined, null or ''
NoParentGiven(fr) ==
  /\ fr.op.name = "updateFolder"
  /\ fr.pc # "idle"
  /\ ~GivenNonEmpty(fr.op.parentId)

\* the invocation's first request, if any, is the write, and the write names
\* no parent
WritesNoParent(fr) ==
  /\ \A i \in 1..Len(fr.calls) :
       IsWrite(fr.calls[i]) => ~Has(fr.calls[i].body, "parent_id")
  /\ fr.calls # <<>> => IsWrite(fr.calls[1])

\* C27: an updateFolder whose parentId is undefined, null or '' reads no
\* folder before its write and sends no parent_id, and no step of any
\* operation leaves a folder that had a parent without one.
C27_NeverUnparents ==
  [][/\ NoParentGiven(inv'[1]) => WritesNoParent(inv'[1])
     /\ \A f \in DOMAIN folders \cap DOMAIN folders' :
          folders[f].parent_id # <<>> => folders'[f].parent_id # <<>>]_vars

\* an updateFolder without a parent has renamed a folder that has a parent
C27_Witness ==
  /\ NoParentGiven(inv[1])
  /\ inv[1].pc = "done"
  /\ inv[1].result.text \in SuccessTexts
  /\ inv[1].op.id.s \in DOMAIN folders
  /\ folders[inv[1].op.id.s].parent_id # <<>>
  /\ Len(inv[1].calls) >= 1


\* ======================================================================
\* Claims about failed writes (SpecGate)
\* ======================================================================
\* a create or update operation has returned an error result
WriteOpFailed(fr) ==
  /\ fr.op.name \in {"createNote", "updateNote", "createFolder", "updateFolder"}
  /\ fr.pc = "done"
  /\ IsErrorResult(fr.result)

\* the backend holds what it held before the invocation
StoreAsBefore(fr) ==
  /\ folders = fr.pre
  /\ notes = (GateNote :> NoteRec(DefaultTitle, <<"b">>, GateFolder, 0, 0, 0))

\* C28: when a create or update operation returns an error result, the
\* backend's stored records are those it held before the invocation.
C28_ErrorLeavesStore ==
  WriteOpFailed(inv[1]) => StoreAsBefore(inv[1])

\* what does hold: the store is as before unless the result is the one about
\* the response's format, which the code returns after the backend answered
C28_ErrorLeavesStoreUnlessAnswered ==
  (WriteOpFailed(inv[1])
     /\ inv[1].result.text # "Error: Unexpected response format")
    => StoreAsBefore(inv[1])


\* ======================================================================
\* Claims about the order of the calls of a relocation (Spec)
\* ======================================================================
RECURSIVE ChainLen(_, _, _)
\* the number of folders met when following parent references from id, id
\* itself included, until the root (or a missing folder, or k hops)
ChainLen(f, id, k) ==
  IF id = <<>> \/ id \notin DOMAIN f \/ k = 0 THEN 0
  ELSE 1 + ChainLen(f, f[id].parent_id, k - 1)

RECURSIVE ChainOf(_, _, _)
\* the identifiers met on that way, in order
ChainOf(f, id, k) ==
  IF id = <<>> \/ id \notin DOMAIN f \/ k = 0 THEN <<>>
  ELSE <<id>> \o ChainOf(f, f[id].parent_id, k - 1)

\* updateFolder(F, parent = P), P with a chain up to the root that avoids F,
\* has been accepted
AcceptedRelocation(fr) ==
  /\ FinishedUpdateFolder(fr)
  /\ SafeRelocation(fr)
  /\ fr.result.text = "Successfully updated folder"

Reads(fr) == {i \in 1..Len(fr.calls) : fr.calls[i].m = "GET"}

\* C29 (as stated): an accepted relocation issues exactly k folder reads, k the
\* number of ancestors-or-self of P, for pairwise distinct identifiers, all
\* of them before its single write.
C29_ExactlyKReads ==
  AcceptedRelocation(inv[1])
    => LET fr == inv[1]
           k == ChainLen(fr.pre, fr.op.parentId.s, Size(fr.pre))
       IN /\ Cardinality(Reads(fr)) = k
          /\ \A i, j \in Reads(fr) : fr.calls[i].id = fr.calls[j].id => i = j
          /\ Cardinality(Writes(fr)) = 1
          /\ \A i \in Reads(fr), w \in Writes(fr) : i < w

\* C29 (amended): the walk of an accepted relocation issues exactly k reads, one
\* per hop of P's chain in order, all before the single write; the write is
\* followed by one more read, of P again, for the parent's title.
C29_KWalkReadsThenWrite ==
  AcceptedRelocation(inv[1])
    => LET fr == inv[1]
           k == ChainLen(fr.pre, fr.op.parentId.s, Size(fr.pre))
       IN /\ WalkFetches(fr) = 1..k
          /\ [i \in 1..k |-> fr.calls[i].id]
               = ChainOf(fr.pre, fr.op.parentId.s, Size(fr.pre))
          /\ \A i, j \in 1..k : fr.calls[i].id = fr.calls[j].id => i = j
          /\ Writes(fr) = {k + 1}
          /\ Len(fr.calls) = k + 2
          /\ fr.calls[k + 2].m = "GET"
          /\ fr.calls[k + 2].id = fr.op.parentId.s

\* an accepted relocation under a parent that has a parent of its own
C29_Witness ==
  /\ AcceptedRelocation(inv[1])
  /\ ChainLen(inv[1].pre, inv[1].op.parentId.s, Size(inv[1].pre)) >= 2
  /\ Len(inv[1].calls) >= 4


\* ======================================================================
\* Claims about the sub-folders of a folder (SpecPages)
\* ======================================================================
\* getFolder has returned the details of a folder after a complete fetch of
\* the folder collection
FolderDetailsGiven(fr) ==
  /\ fr.op.name = "getFolder"
  /\ fr.pc = "done"
  /\ fr.result.text = "Folder details"
  /\ \A i \in AnsweredCalls(fr) :
       fr.calls[i].path = "folders*" => fr.answers[i] = "ok"

DirectChildren(id) == {f \in DOMAIN folders : folders[f].parent_id = id}

\* C30: the sub-folders getFolder reports are exactly the folders whose parent
\* is the requested folder, and their reported number is the number of the
\* folder's direct children.
C30_ReportsDirectChildren ==
  FolderDetailsGiven(inv[1])
    => /\ {inv[1].lines[i].id : i \in 1..Len(inv[1].lines)}
            = DirectChildren(inv[1].op.id.s)
       /\ Len(inv[1].lines) = Cardinality(DirectChildren(inv[1].op.id.s))

\* what does hold: the records fetched carry no parent reference, and no
\* sub-folder is reported
C30_ReportsNoSubFolder ==
  FolderDetailsGiven(inv[1])
    => /\ inv[1].lines = <<>>
       /\ \A i \in 1..Len(inv[1].queue) : "parent_id" \notin DOMAIN inv[1].queue[i]

====
